---- MODULE Spec2Model ----
(***************************************************************************)
(* Snippet targeting of the HTML build stage (gulp/html-utils.js and       *)
(* gulp/tasks/html.js): the path matcher, the snippet rule evaluator and   *)
(* the insertion of snippets into the head and body of a page; and the     *)
(* build modes (gulp/config.js) with the dev, build and serve pipelines    *)
(* that set them and run the stages.                                       *)
(*                                                                         *)
(* A JavaScript string is a sequence of one-character strings, so that     *)
(* startsWith, endsWith, includes, slice, replace and the regular          *)
(* expression are computed character by character, as the code does.      *)
(***************************************************************************)
EXTENDS Integers, Sequences, FiniteSets, TLC

VARIABLES
    mFilePath,      \* matchesPattern: argument filePath
    mPattern,       \* matchesPattern: argument pattern
    mResult,        \* matchesPattern: "pending", "true", "false" or "SyntaxError"
    configFile,     \* snippets/config.json on disk
    snippetConfig,  \* what loadSnippetConfig returned: <<>> before the call, <<mapping>> after
    aName,          \* shouldApplySnippet: argument snippetName
    aPath,          \* shouldApplySnippet: argument filePath
    aResult,        \* shouldApplySnippet: "pending", "true", "false" or "SyntaxError"
    isServing,      \* buildMode.isServing
    insertSnippets, \* buildMode.insertSnippets
    snippetDir,     \* the files of src/snippets, in readdirSync order: [name, content]
    snippets,       \* html(): the loaded snippets, in Object.entries order
    hpc,            \* html(): "idle", "streaming" or "failed"
    pendingFiles,   \* the HTML files the stream has not handed to the transform yet
    file,           \* the file the transform handled last (None before the first)
    headSnippets,   \* transform: the sorted head group of that file
    bodySnippets,   \* transform: the sorted body group of that file
    head,           \* the children of <head> of that file as emitted
    body,           \* the children of <body> of that file as emitted
    isDevelopment,  \* buildMode.isDevelopment
    buildPrivacyPolicy, \* buildMode.buildPrivacyPolicy
    lastSet,        \* per setter of buildMode, the argument of its last call (None: not called)
    command,        \* the gulp task of the command line: "none", "dev", "build" or "serve"
    argv,           \* the parsed command line: [snippets, privacyPolicy]
    gpc,            \* where the series of that task is
    taskStatus,     \* per task: "idle", "running", "done" or "failed"
    taskOpts,       \* per stage, what it decided from buildMode when it started (None: not started)
    transform,      \* html transform, per file in it: where its promise chain is and what it did
    scroll,         \* ResponsiveSmoothScroll: the listeners of the page, the timer, what has run
    maps,           \* LazyGoogleMapLoader: the elements of the page, the observer, the counters
    videos,         \* LazyYouTubeLoader: the elements of the page, the observer, the counters, the onLoad calls
    throttled,      \* a function made by throttle: its inThrottle, its timers, the clock, its calls
    debounced,      \* a function made by debounce: its timeoutId, its timers, the clock, its calls
    webp,           \* processWithWebPConversion: the files of the run, where each is in the pipe, stats, the log
    output          \* what the tasks have written: the files of ./dist and of the zip

matchVars == <<mFilePath, mPattern, mResult>>
applyVars == <<aName, aPath, aResult>>
configVars == <<configFile, snippetConfig>>
htmlVars == <<isServing, insertSnippets, snippetDir, snippets, hpc, pendingFiles, file,
              headSnippets, bodySnippets, head, body>>
pipeVars == <<command, argv, gpc, taskStatus, taskOpts>>
buildVars == <<isDevelopment, buildPrivacyPolicy, lastSet, command, argv, gpc, taskStatus, taskOpts>>
vars == <<mFilePath, mPattern, mResult, configFile, snippetConfig, aName, aPath, aResult,
          isServing, insertSnippets, snippetDir, snippets, hpc, pendingFiles, file,
          headSnippets, bodySnippets, head, body,
          isDevelopment, buildPrivacyPolicy, lastSet, command, argv, gpc, taskStatus, taskOpts,
          transform, scroll, maps, videos, throttled, debounced, webp, output>>
coreVars == <<mFilePath, mPattern, mResult, configFile, snippetConfig, aName, aPath, aResult,
              isServing, insertSnippets, snippetDir, snippets, hpc, pendingFiles, file,
              headSnippets, bodySnippets, head, body,
              isDevelopment, buildPrivacyPolicy, lastSet, command, argv, gpc, taskStatus, taskOpts>>
chainVars == <<transform>>
scrollVars == <<scroll>>
mapsVars == <<maps>>
videosVars == <<videos>>
throttleVars == <<throttled>>
debounceVars == <<debounced>>
webpVars == <<webp>>
outputVars == <<output>>
extVars == <<chainVars, scrollVars, mapsVars, videosVars, throttleVars, debounceVars, webpVars, outputVars>>
pipeExtVars == <<chainVars, scrollVars, mapsVars, videosVars, throttleVars, debounceVars, webpVars>>
chainRest == <<coreVars, scrollVars, mapsVars, videosVars, throttleVars, debounceVars, webpVars, outputVars>>
scrollRest == <<coreVars, chainVars, mapsVars, videosVars, throttleVars, debounceVars, webpVars, outputVars>>
mapsRest == <<coreVars, chainVars, scrollVars, videosVars, throttleVars, debounceVars, webpVars, outputVars>>
videosRest == <<coreVars, chainVars, scrollVars, mapsVars, throttleVars, debounceVars, webpVars, outputVars>>
throttleRest == <<coreVars, chainVars, scrollVars, mapsVars, videosVars, debounceVars, webpVars, outputVars>>
debounceRest == <<coreVars, chainVars, scrollVars, mapsVars, videosVars, throttleVars, webpVars, outputVars>>
webpRest == <<coreVars, chainVars, scrollVars, mapsVars, videosVars, throttleVars, debounceVars, outputVars>>

----------------------------------------------------------------------------
(* Bounds *)

MaxPathLen == 3
MaxPatLen == 3
MaxListLen == 2
MaxPriority == 1

\* The characters of the enumerated paths and patterns: a letter, the dot the
\* code escapes, the wildcard, and two regular-expression metacharacters the
\* code does not escape.  There is no ")" so every "(" is an unterminated group.
Chars == {"a", ".", "*", "+", "("}

SeqsUpTo(S, n) == UNION {[1..k -> S] : k \in 0..n}

----------------------------------------------------------------------------
(* String primitives of JavaScript *)

\* String.prototype.startsWith
StartsWith(s, p) == Len(p) <= Len(s) /\ SubSeq(s, 1, Len(p)) = p

\* String.prototype.endsWith
EndsWith(s, p) == Len(p) <= Len(s) /\ SubSeq(s, Len(s) - Len(p) + 1, Len(s)) = p

\* String.prototype.includes, for a one-character needle
IncludesChar(s, c) == \E i \in 1..Len(s) : s[i] = c

\* s.slice(0, -1)
SliceDropLast(s) == SubSeq(s, 1, Len(s) - 1)

\* s.replace(/c/g, r): every occurrence of the character c becomes the string r
RECURSIVE ReplaceAll(_, _, _)
ReplaceAll(s, c, r) ==
    IF s = <<>> THEN <<>>
    ELSE (IF Head(s) = c THEN r ELSE <<Head(s)>>) \o ReplaceAll(Tail(s), c, r)

----------------------------------------------------------------------------
(* new RegExp(source) and RegExp.prototype.test, for the sources the code    *)
(* can build from Chars: literals, "\." , ".", the quantifiers "*" and "+", *)
(* "(" and the anchors "^" and "$".                                         *)

RegexError == [ok |-> FALSE, terms |-> <<>>]

IsAtom(t) == t.kind \in {"lit", "any"}

\* The parse of a regular-expression source, left to right.  A quantifier
\* needs an unquantified atom before it ("Nothing to repeat" otherwise), a
\* backslash needs a character after it, and a "(" needs its ")".
RECURSIVE RegexParse(_, _, _)
RegexParse(src, i, terms) ==
    IF i > Len(src) THEN [ok |-> TRUE, terms |-> terms]
    ELSE LET c == src[i] IN
         CASE c = "\\" ->
                IF i = Len(src) THEN RegexError
                ELSE RegexParse(src, i + 2,
                         Append(terms, [kind |-> "lit", ch |-> src[i + 1], q |-> "1"]))
           [] c = "." ->
                RegexParse(src, i + 1, Append(terms, [kind |-> "any", ch |-> ".", q |-> "1"]))
           [] c \in {"*", "+"} ->
                IF terms = <<>> \/ ~IsAtom(terms[Len(terms)]) \/ terms[Len(terms)].q # "1"
                THEN RegexError
                ELSE RegexParse(src, i + 1, [terms EXCEPT ![Len(terms)].q = c])
           [] c = "(" -> RegexError
           [] c = "^" ->
                RegexParse(src, i + 1, Append(terms, [kind |-> "bol", ch |-> c, q |-> "1"]))
           [] c = "$" ->
                RegexParse(src, i + 1, Append(terms, [kind |-> "eol", ch |-> c, q |-> "1"]))
           [] OTHER ->
                RegexParse(src, i + 1, Append(terms, [kind |-> "lit", ch |-> c, q |-> "1"]))

RegexCompile(src) == RegexParse(src, 1, <<>>)

AtomMatches(t, ch) == t.kind = "any" \/ (t.kind = "lit" /\ t.ch = ch)

\* The terms from ti on match s from position si on (backtracking over the
\* number of characters a quantified atom takes).
RECURSIVE RegexMatchFrom(_, _, _, _)
RegexMatchFrom(terms, ti, s, si) ==
    IF ti > Len(terms) THEN TRUE
    ELSE LET t == terms[ti]
             Run(k) == \A j \in si..(si + k - 1) : AtomMatches(t, s[j])
             Rest == Len(s) - si + 1
         IN CASE t.kind = "bol" -> si = 1 /\ RegexMatchFrom(terms, ti + 1, s, si)
              [] t.kind = "eol" -> si = Len(s) + 1 /\ RegexMatchFrom(terms, ti + 1, s, si)
              [] t.q = "1" /\ IsAtom(t) ->
                    Rest >= 1 /\ Run(1) /\ RegexMatchFrom(terms, ti + 1, s, si + 1)
              [] t.q = "*" /\ IsAtom(t) ->
                    \E k \in 0..Rest : Run(k) /\ RegexMatchFrom(terms, ti + 1, s, si + k)
              [] t.q = "+" /\ IsAtom(t) ->
                    \E k \in 1..Rest : Run(k) /\ RegexMatchFrom(terms, ti + 1, s, si + k)

\* regex.test(s): a match starting anywhere
RegexTest(terms, s) == \E start \in 1..(Len(s) + 1) : RegexMatchFrom(terms, 1, s, start)

----------------------------------------------------------------------------
(* gulp/html-utils.js: matchesPattern *)

BoolStr(b) == IF b THEN "true" ELSE "false"

\* pattern.replace(/\./g, "\\.").replace(/\*/g, ".*")
RegexPattern(pattern) == ReplaceAll(ReplaceAll(pattern, ".", <<"\\", ".">>), "*", <<".", "*">>)

\* Mutant of PatternPrefix: the trailing "*" is not cut off
PatternPrefix_keepsWildcard(pattern) == pattern

\* pattern.slice(0, -1) of the trailing-wildcard branch
PatternPrefix(pattern) == SliceDropLast(pattern)

\* Mutant of matchesPattern: a pattern without "*" is compiled and tested as a
\* regular expression too
matchesPattern_regexWithoutWildcard(filePath, pattern) ==
    IF filePath = pattern THEN "true"
    ELSE IF EndsWith(pattern, <<"*">>)
    THEN BoolStr(StartsWith(filePath, PatternPrefix(pattern)))
    ELSE LET re == RegexCompile(<<"^">> \o RegexPattern(pattern) \o <<"$">>)
         IN IF ~re.ok THEN "SyntaxError"
            ELSE BoolStr(RegexTest(re.terms, filePath))

matchesPattern(filePath, pattern) ==
    IF filePath = pattern THEN "true"
    ELSE IF IncludesChar(pattern, "*")
    THEN IF EndsWith(pattern, <<"*">>)
         THEN BoolStr(StartsWith(filePath, PatternPrefix(pattern)))
         ELSE LET re == RegexCompile(<<"^">> \o RegexPattern(pattern) \o <<"$">>)
              IN IF ~re.ok THEN "SyntaxError"
                 ELSE BoolStr(RegexTest(re.terms, filePath))
    ELSE "false"

----------------------------------------------------------------------------
(* gulp/html-utils.js: loadSnippetConfig and shouldApplySnippet *)

\* An optional value (undefined or a value) is a sequence of length 0 or 1.
None == <<>>
Some(v) == <<v>>
IsSome(o) == o # <<>>
TheValue(o) == o[1]

All == <<"a", "l", "l">>
IndexHtml == <<"i", "n", "d", "e", "x", ".", "h", "t", "m", "l">>
HeadSnippet == <<"h", "e", "a", "d", "-", "s", "n", "i", "p", "p", "e", "t">>
BodySnippet == <<"b", "o", "d", "y", "-", "s", "n", "i", "p", "p", "e", "t">>
HeadGa == <<"h", "e", "a", "d", "-", "g", "a">>

\* The mapping returned when config.json cannot be read
DefaultSnippetConfig ==
    [n \in {HeadSnippet, BodySnippet} |->
        [applyTo |-> Some(<<IndexHtml>>), excludeFrom |-> Some(<<>>),
         priority |-> None, position |-> None]]

\* Mutant of loadSnippetConfig: an empty mapping when config.json cannot be read
loadSnippetConfig_emptyFallback(cfgFile) ==
    IF cfgFile.kind = "ok" THEN cfgFile.content ELSE <<>>

\* existsSync false ("missing"), or readFileSync / JSON.parse throws and the
\* catch logs it ("unparsable"): both fall through to the default mapping.
loadSnippetConfig(cfgFile) ==
    IF cfgFile.kind = "ok" THEN cfgFile.content ELSE DefaultSnippetConfig

\* patterns.some((pattern) => matchesPattern(filePath, pattern)): left to right,
\* stopping at the first match; an exception of matchesPattern propagates.
RECURSIVE SomeMatches(_, _)
SomeMatches(filePath, patterns) ==
    IF patterns = <<>> THEN "false"
    ELSE LET r == matchesPattern(filePath, Head(patterns))
         IN IF r = "false" THEN SomeMatches(filePath, Tail(patterns)) ELSE r

\* applyTo.includes("all")
IncludesAll(patterns) == \E i \in 1..Len(patterns) : patterns[i] = All

\* config is None for null, Some(mapping) otherwise
shouldApplySnippet(snippetName, filePath, config) ==
    IF ~IsSome(config) \/ snippetName \notin DOMAIN TheValue(config) THEN "false"
    ELSE LET rule == TheValue(config)[snippetName]
             excluded == IF IsSome(rule.excludeFrom)
                         THEN SomeMatches(filePath, TheValue(rule.excludeFrom))
                         ELSE "false"
             applied == IF ~IsSome(rule.applyTo) THEN "false"
                        ELSE IF IncludesAll(TheValue(rule.applyTo)) THEN "true"
                        ELSE SomeMatches(filePath, TheValue(rule.applyTo))
         IN IF excluded = "true" THEN "false"
            ELSE IF excluded = "SyntaxError" THEN "SyntaxError"
            ELSE applied

----------------------------------------------------------------------------
(* The path matcher on its own: every path and pattern over Chars *)

\* gulp/config.js: the names of the setters of buildMode, the tasks of the
\* pipelines and the four stages that read buildMode
Setters == {"setDevelopmentMode", "setServingMode", "setSnippetsMode", "setPrivacyPolicyMode"}
Stages == {"html", "js", "scss", "images"}

\* The two tool tasks of gulp serve
ToolTasks == {"shadowConverter", "fontFamilyGenerator"}

Tasks == Stages \cup {"clean", "createZip", "shadowConverter", "fontFamilyGenerator", "startServer"}

\* No file is in the promise chain of the html transform
ChainIdle == transform = <<>>

\* No ResponsiveSmoothScroll has been constructed
ScrollIdle == scroll = <<>>

\* No LazyGoogleMapLoader has been constructed
MapsIdle == maps = <<>>

\* No LazyYouTubeLoader has been constructed
VideosIdle == videos = <<>>

\* No function has been made by throttle
ThrottleIdle == throttled = <<>>

\* No function has been made by debounce
DebounceIdle == debounced = <<>>

\* No WebP conversion stream has been made
WebpIdle == webp = <<>>

\* Nothing is known of ./dist
OutputIdle == output = <<>>

\* Nothing but the build modes, the pipelines and the html stage is in use
ExtIdle == ChainIdle /\ ScrollIdle /\ MapsIdle /\ VideosIdle /\ ThrottleIdle /\ DebounceIdle /\ WebpIdle /\ OutputIdle

\* Nothing but the build modes and the pipelines, which write to ./dist, is in use
PipeExtIdle == ChainIdle /\ ScrollIdle /\ MapsIdle /\ VideosIdle /\ ThrottleIdle /\ DebounceIdle /\ WebpIdle

\* buildMode as the module leaves it, and no task of the command line
BuildIdle ==
    /\ isDevelopment = TRUE
    /\ buildPrivacyPolicy = TRUE
    /\ lastSet = [n \in Setters |-> None]
    /\ command = "none"
    /\ argv = [snippets |-> TRUE, privacyPolicy |-> TRUE]
    /\ gpc = "idle"
    /\ taskStatus = [t \in Tasks |-> "idle"]
    /\ taskOpts = [t \in Stages \cup ToolTasks |-> None]

ApplyIdle ==
    /\ aName = <<>>
    /\ aPath = <<>>
    /\ aResult = "pending"

ConfigIdle ==
    /\ configFile = [kind |-> "missing"]
    /\ snippetConfig = <<>>

HtmlIdle ==
    /\ isServing = FALSE
    /\ insertSnippets = TRUE
    /\ snippetDir = <<>>
    /\ snippets = <<>>
    /\ hpc = "idle"
    /\ pendingFiles = {}
    /\ file = <<>>
    /\ headSnippets = <<>>
    /\ bodySnippets = <<>>
    /\ head = <<>>
    /\ body = <<>>

InitMatch ==
    /\ mFilePath \in SeqsUpTo(Chars, MaxPathLen)
    /\ mPattern \in SeqsUpTo(Chars, MaxPatLen)
    /\ mResult = "pending"
    /\ ApplyIdle
    /\ ConfigIdle
    /\ HtmlIdle
    /\ BuildIdle
    /\ ExtIdle

CallMatchesPattern ==
    /\ mResult = "pending"
    /\ mResult' = matchesPattern(mFilePath, mPattern)
    /\ UNCHANGED <<mFilePath, mPattern>>
    /\ UNCHANGED <<applyVars, configVars, htmlVars>>
    /\ UNCHANGED buildVars
    /\ UNCHANGED extVars

NextMatch == CallMatchesPattern

SpecMatch == InitMatch /\ [][NextMatch]_vars

----------------------------------------------------------------------------
(* The rule evaluator: a config.json (or none), then one call of            *)
(* shouldApplySnippet                                                       *)

MatchIdle ==
    /\ mFilePath = <<>>
    /\ mPattern = <<>>
    /\ mResult = "pending"

\* The patterns of the enumerated rules: the literal "all", an exact path, a
\* trailing wildcard, a leading wildcard, and one that does not compile.
RulePatterns == {All, IndexHtml, <<"a", "*">>, <<"*", "a">>, <<"(", "*", "a">>}

PathPool == {IndexHtml, <<"a">>, <<"a", "b">>, <<"b", "a">>}

NamePool == {HeadSnippet, BodySnippet, HeadGa}

PatternLists == {None} \cup {Some(l) : l \in SeqsUpTo(RulePatterns, MaxListLen)}

ApplyRules ==
    [applyTo : PatternLists, excludeFrom : PatternLists, priority : {None}, position : {None}]

\* config.json: absent, unreadable, the empty object, or one rule for head-ga
ConfigFiles ==
    {[kind |-> "missing"], [kind |-> "unparsable"], [kind |-> "ok", content |-> <<>>]}
    \cup {[kind |-> "ok", content |-> [n \in {HeadGa} |-> r]] : r \in ApplyRules}

InitApply ==
    /\ configFile \in ConfigFiles
    /\ snippetConfig = None
    /\ aName = <<>>
    /\ aPath = <<>>
    /\ aResult = "pending"
    /\ MatchIdle
    /\ HtmlIdle
    /\ BuildIdle
    /\ ExtIdle

LoadSnippetConfig ==
    /\ snippetConfig = None
    /\ snippetConfig' = Some(loadSnippetConfig(configFile))
    /\ UNCHANGED <<configFile, aName, aPath, aResult>>
    /\ UNCHANGED <<matchVars, htmlVars>>
    /\ UNCHANGED buildVars
    /\ UNCHANGED extVars

CallShouldApplySnippet ==
    /\ snippetConfig # None
    /\ aResult = "pending"
    /\ \E n \in NamePool, p \in PathPool :
          /\ aName' = n
          /\ aPath' = p
          /\ aResult' = shouldApplySnippet(n, p, snippetConfig)
    /\ UNCHANGED <<configFile, snippetConfig>>
    /\ UNCHANGED <<matchVars, htmlVars>>
    /\ UNCHANGED buildVars
    /\ UNCHANGED extVars

NextApply == LoadSnippetConfig \/ CallShouldApplySnippet

SpecApply == InitApply /\ [][NextApply]_vars

----------------------------------------------------------------------------
(* gulp/html-utils.js: the snippet helpers of the html task *)

HeadPrefix == <<"h", "e", "a", "d", "-">>
BodyPrefix == <<"b", "o", "d", "y", "-">>

\* Mutant of getSnippetTargetTag: the prefix is tested without its dash
getSnippetTargetTag_prefixWithoutDash(snippetName) ==
    IF StartsWith(snippetName, SubSeq(HeadPrefix, 1, 4)) THEN "head"
    ELSE "body"

getSnippetTargetTag(snippetName) ==
    IF StartsWith(snippetName, HeadPrefix) THEN "head"
    ELSE IF StartsWith(snippetName, BodyPrefix) THEN "body"
    ELSE "body"

\* A value of config.json with what typeof gives for it
Num(k) == [typeof |-> "number", value |-> k]
Str(t) == [typeof |-> "string", value |-> t]
Bool(t) == [typeof |-> "boolean", value |-> t]
Null == [typeof |-> "object", value |-> "null"]

\* typeof config[snippetName].priority === "number", else 0
getSnippetPriority(snippetName, config) ==
    IF IsSome(config) /\ snippetName \in DOMAIN TheValue(config)
          /\ IsSome(TheValue(config)[snippetName].priority)
          /\ TheValue(TheValue(config)[snippetName].priority).typeof = "number"
    THEN TheValue(TheValue(config)[snippetName].priority).value
    ELSE 0

\* Mutant of getSnippetPosition: "prepend" only when the rule says so
getSnippetPosition_defaultAppend(snippetName, config) ==
    IF IsSome(config) /\ snippetName \in DOMAIN TheValue(config)
          /\ IsSome(TheValue(config)[snippetName].position)
          /\ TheValue(TheValue(config)[snippetName].position).typeof = "string"
          /\ TheValue(TheValue(config)[snippetName].position).value = "prepend"
    THEN "prepend"
    ELSE "append"

\* "append" only when the rule says so, else "prepend"
getSnippetPosition(snippetName, config) ==
    IF IsSome(config) /\ snippetName \in DOMAIN TheValue(config)
          /\ IsSome(TheValue(config)[snippetName].position)
          /\ TheValue(TheValue(config)[snippetName].position).typeof = "string"
          /\ TheValue(TheValue(config)[snippetName].position).value = "append"
    THEN "append"
    ELSE "prepend"

\* Mutant of loadAllSnippets: without the test of content, trim() of null
\* throws and the catch returns the empty map
loadAllSnippets_unreadableEmptiesMap(dir) ==
    IF \E i \in 1..Len(dir) : ~IsSome(dir[i].content) THEN <<>>
    ELSE [i \in 1..Len(dir) |-> [name |-> dir[i].name, content |-> TheValue(dir[i].content)]]

\* The files of the snippets directory that could be read, in directory
\* order: readFileContent gives null for the others and they are left out.
RECURSIVE loadAllSnippets(_)
loadAllSnippets(dir) ==
    IF dir = <<>> THEN <<>>
    ELSE (IF IsSome(Head(dir).content)
          THEN <<[name |-> Head(dir).name, content |-> TheValue(Head(dir).content)]>>
          ELSE <<>>) \o loadAllSnippets(Tail(dir))

----------------------------------------------------------------------------
(* gulp/tasks/html.js: the transform of one HTML file *)

\* The loop over Object.entries(snippets) for one target tag: the applicable
\* snippets of that tag, in entry order, with priority and position resolved.
RECURSIVE GroupSnippets(_, _, _, _)
GroupSnippets(entries, filePath, config, tag) ==
    IF entries = <<>> THEN <<>>
    ELSE LET e == Head(entries)
         IN (IF shouldApplySnippet(e.name, filePath, config) = "true"
                  /\ getSnippetTargetTag(e.name) = tag
             THEN <<[name |-> e.name, content |-> e.content,
                     priority |-> getSnippetPriority(e.name, config),
                     position |-> getSnippetPosition(e.name, config)]>>
             ELSE <<>>) \o GroupSnippets(Tail(entries), filePath, config, tag)

\* shouldApplySnippet throws for some entry: the loop, and the transform, end there
GroupingThrows(entries, filePath, config) ==
    \E i \in 1..Len(entries) :
        shouldApplySnippet(entries[i].name, filePath, config) = "SyntaxError"

\* Mutant of InsertByPriority: the comparator is b.priority - a.priority
RECURSIVE InsertByPriority_descending(_, _)
InsertByPriority_descending(x, sorted) ==
    IF sorted = <<>> THEN <<x>>
    ELSE IF x.priority - Head(sorted).priority > 0
    THEN <<x>> \o sorted
    ELSE <<Head(sorted)>> \o InsertByPriority_descending(x, Tail(sorted))

\* Mutant of InsertByPriority: equal priorities change places (an unstable sort)
RECURSIVE InsertByPriority_unstable(_, _)
InsertByPriority_unstable(x, sorted) ==
    IF sorted = <<>> THEN <<x>>
    ELSE IF Head(sorted).priority - x.priority >= 0
    THEN <<x>> \o sorted
    ELSE <<Head(sorted)>> \o InsertByPriority_unstable(x, Tail(sorted))

\* One step of the stable sort: x goes after every element whose priority is
\* not greater than its own.
RECURSIVE InsertByPriority(_, _)
InsertByPriority(x, sorted) ==
    IF sorted = <<>> THEN <<x>>
    ELSE IF Head(sorted).priority - x.priority > 0
    THEN <<x>> \o sorted
    ELSE <<Head(sorted)>> \o InsertByPriority(x, Tail(sorted))

\* list.sort((a, b) => a.priority - b.priority): ascending, and stable
RECURSIVE SortByPriority(_)
SortByPriority(list) ==
    IF list = <<>> THEN <<>>
    ELSE InsertByPriority(list[Len(list)], SortByPriority(SubSeq(list, 1, Len(list) - 1)))

\* Mutant of InsertSnippet: tag.append(content) whatever the position
InsertSnippet_appendsAll(children, snippet) == children \o snippet.content

\* tag.append(content) or tag.prepend(content) for one snippet
InsertSnippet(children, snippet) ==
    IF snippet.position = "append"
    THEN children \o snippet.content
    ELSE snippet.content \o children

\* The insertion loop over a sorted group
RECURSIVE InsertSnippets(_, _)
InsertSnippets(children, group) ==
    IF group = <<>> THEN children
    ELSE InsertSnippets(InsertSnippet(children, Head(group)), Tail(group))

\* preloadLinks.forEach((link) => head.append(link)), after the snippets
AppendPreloadLinks(children, links) == children \o links

----------------------------------------------------------------------------
(* The html stage: html() loads the snippets and the rules, then the stream *)
(* hands each HTML file to the transform                                    *)

HeadA == <<"h", "e", "a", "d", "-", "a">>
BodyA == <<"b", "o", "d", "y", "-", "a">>
Heads == <<"h", "e", "a", "d", "s">>
Foot == <<"f", "o", "o", "t">>
AboutHtml == <<"a", "b", "o", "u", "t", ".", "h", "t", "m", "l">>

\* The snippet files, each with the nodes its markup parses to
SnippetFiles ==
    { [name |-> HeadA, content |-> Some(<<"head-a.1", "head-a.2">>)],
      [name |-> BodyA, content |-> Some(<<"body-a">>)],
      [name |-> Heads, content |-> Some(<<"heads">>)],
      [name |-> Foot, content |-> Some(<<"foot">>)] }

\* The pages: the children of head and body as written, and the links the
\* transform makes for the images of the first view
Pages ==
    [f \in {IndexHtml, AboutHtml} |->
        IF f = IndexHtml
        THEN [head |-> <<"title">>, body |-> <<"fv", "main">>, preloadLinks |-> <<"preload">>]
        ELSE [head |-> <<"title">>, body |-> <<"main">>, preloadLinks |-> <<>>]]

\* The rules one snippet can have (None: config.json does not name it)
HtmlRules ==
    {None}
    \cup {Some([applyTo |-> Some(<<All>>), excludeFrom |-> None, priority |-> pr, position |-> po]) :
            pr \in {None} \cup {Some(Num(k)) : k \in 1..MaxPriority},
            po \in {None, Some(Str("append"))}}
    \cup {Some([applyTo |-> Some(<<IndexHtml>>), excludeFrom |-> Some(<<>>),
                priority |-> None, position |-> None]),
          Some([applyTo |-> Some(<<All>>), excludeFrom |-> Some(<<<<"(", "*", "a">>>>),
                priority |-> None, position |-> None])}

\* The sequences without repetition of elements of S
Orderings(S) ==
    {q \in SeqsUpTo(S, Cardinality(S)) : \A i, j \in 1..Len(q) : i # j => q[i] # q[j]}

\* config.json with the rules chosen for the names of a directory
ConfigOf(choice) ==
    [kind |-> "ok",
     content |-> [n \in {m \in DOMAIN choice : IsSome(choice[m])} |-> TheValue(choice[n])]]

NamesOf(dir) == {dir[i].name : i \in 1..Len(dir)}

Init ==
    /\ isServing \in BOOLEAN
    /\ insertSnippets \in BOOLEAN
    /\ snippetDir \in Orderings(SnippetFiles)
    /\ configFile \in {[kind |-> "missing"]}
                        \cup {ConfigOf(c) : c \in [NamesOf(snippetDir) -> HtmlRules]}
    /\ snippetConfig = None
    /\ snippets = <<>>
    /\ hpc = "idle"
    /\ pendingFiles = DOMAIN Pages
    /\ file = None
    /\ headSnippets = <<>>
    /\ bodySnippets = <<>>
    /\ head = <<>>
    /\ body = <<>>
    /\ MatchIdle
    /\ ApplyIdle
    /\ BuildIdle
    /\ ExtIdle

\* const snippets = buildMode.insertSnippets ? loadAllSnippets() : {}, with
\* the flag ignored
htmlSnippets_alwaysLoads(insert, dir) == loadAllSnippets(dir)

\* const snippets = buildMode.insertSnippets ? loadAllSnippets() : {}
htmlSnippets(insert, dir) == IF insert THEN loadAllSnippets(dir) ELSE <<>>

\* const snippetConfig = buildMode.insertSnippets ? loadSnippetConfig() : null
htmlSnippetConfig(insert, cfgFile) == IF insert THEN Some(loadSnippetConfig(cfgFile)) ELSE None

\* html(), up to the creation of the stream
HtmlStart ==
    /\ hpc = "idle"
    /\ snippets' = htmlSnippets(insertSnippets, snippetDir)
    /\ snippetConfig' = htmlSnippetConfig(insertSnippets, configFile)
    /\ hpc' = "streaming"
    /\ UNCHANGED <<isServing, insertSnippets, snippetDir, pendingFiles, file,
                   headSnippets, bodySnippets, head, body, configFile>>
    /\ UNCHANGED <<matchVars, applyVars>>
    /\ UNCHANGED buildVars
    /\ UNCHANGED extVars

\* const skipProcessing = buildMode.isServing, with the transform always piped
skipProcessing_never(serving) == FALSE

\* const skipProcessing = buildMode.isServing: the transform is piped unless it holds
skipProcessing(serving) == serving

\* Serving: the transform is not in the pipe and the file goes on as written
PassThrough(f) ==
    /\ hpc = "streaming"
    /\ skipProcessing(isServing)
    /\ f \in pendingFiles
    /\ pendingFiles' = pendingFiles \ {f}
    /\ file' = Some(f)
    /\ headSnippets' = <<>>
    /\ bodySnippets' = <<>>
    /\ head' = Pages[f].head
    /\ body' = Pages[f].body
    /\ UNCHANGED <<isServing, insertSnippets, snippetDir, snippets, hpc>>
    /\ UNCHANGED <<matchVars, applyVars, configVars>>
    /\ UNCHANGED buildVars
    /\ UNCHANGED extVars

\* The transform of one file: group, sort, insert, then the preload links
TransformFile(f) ==
    /\ hpc = "streaming"
    /\ ~skipProcessing(isServing)
    /\ f \in pendingFiles
    /\ ~(insertSnippets /\ GroupingThrows(snippets, f, snippetConfig))
    /\ LET hs == IF insertSnippets
                 THEN SortByPriority(GroupSnippets(snippets, f, snippetConfig, "head"))
                 ELSE <<>>
           bs == IF insertSnippets
                 THEN SortByPriority(GroupSnippets(snippets, f, snippetConfig, "body"))
                 ELSE <<>>
       IN /\ headSnippets' = hs
          /\ bodySnippets' = bs
          /\ head' = AppendPreloadLinks(InsertSnippets(Pages[f].head, hs), Pages[f].preloadLinks)
          /\ body' = InsertSnippets(Pages[f].body, bs)
    /\ pendingFiles' = pendingFiles \ {f}
    /\ file' = Some(f)
    /\ UNCHANGED <<isServing, insertSnippets, snippetDir, snippets, hpc>>
    /\ UNCHANGED <<matchVars, applyVars, configVars>>
    /\ UNCHANGED buildVars
    /\ UNCHANGED extVars

\* shouldApplySnippet throws inside the transform: the stream fails and the
\* file is not emitted
TransformThrows(f) ==
    /\ hpc = "streaming"
    /\ ~skipProcessing(isServing)
    /\ f \in pendingFiles
    /\ insertSnippets
    /\ GroupingThrows(snippets, f, snippetConfig)
    /\ hpc' = "failed"
    /\ UNCHANGED <<isServing, insertSnippets, snippetDir, snippets, pendingFiles, file,
                   headSnippets, bodySnippets, head, body>>
    /\ UNCHANGED <<matchVars, applyVars, configVars>>
    /\ UNCHANGED buildVars
    /\ UNCHANGED extVars

Next ==
    \/ HtmlStart
    \/ \E f \in DOMAIN Pages : PassThrough(f)
    \/ \E f \in DOMAIN Pages : TransformFile(f)
    \/ \E f \in DOMAIN Pages : TransformThrows(f)

Spec == Init /\ [][Next]_vars

----------------------------------------------------------------------------
(* The html stage over a snippets directory some files of which cannot be  *)
(* read                                                                     *)

\* The snippet files of S, those named in u unreadable (readFileContent: null)
Unreadable(S, u) ==
    {[name |-> s.name, content |-> IF s.name \in u THEN None ELSE s.content] : s \in S}

LoadFiles == {s \in SnippetFiles : s.name \in {HeadA, BodyA, Foot}}

LoadDirs ==
    UNION {Orderings(Unreadable(LoadFiles, u)) : u \in SUBSET {s.name : s \in LoadFiles}}

\* No rule, a rule for every page, a rule whose excludeFrom does not compile
LoadRules ==
    {None,
     Some([applyTo |-> Some(<<All>>), excludeFrom |-> None, priority |-> None, position |-> None]),
     Some([applyTo |-> Some(<<All>>), excludeFrom |-> Some(<<<<"(", "*", "a">>>>),
           priority |-> None, position |-> None])}

InitLoad ==
    /\ isServing \in BOOLEAN
    /\ insertSnippets = TRUE
    /\ snippetDir \in LoadDirs
    /\ configFile \in {[kind |-> "missing"]}
                        \cup {ConfigOf(c) : c \in [NamesOf(snippetDir) -> LoadRules]}
    /\ snippetConfig = None
    /\ snippets = <<>>
    /\ hpc = "idle"
    /\ pendingFiles = DOMAIN Pages
    /\ file = None
    /\ headSnippets = <<>>
    /\ bodySnippets = <<>>
    /\ head = <<>>
    /\ body = <<>>
    /\ MatchIdle
    /\ ApplyIdle
    /\ BuildIdle
    /\ ExtIdle

SpecLoad == InitLoad /\ [][Next]_vars

----------------------------------------------------------------------------
(* The html stage over rules whose priority and position are any value     *)
(* config.json can hold                                                     *)

DefaultsFiles == {s \in SnippetFiles : s.name \in {HeadA, BodyA}}

Priorities ==
    {None, Some(Str("1")), Some(Bool("true")), Some(Null)}
        \cup {Some(Num(k)) : k \in 0..MaxPriority}

Positions ==
    {None, Some(Str("append")), Some(Str("prepend")), Some(Str("APPEND")),
     Some(Num(1)), Some(Null)}

DefaultsRules ==
    {None}
    \cup {Some([applyTo |-> Some(<<All>>), excludeFrom |-> None, priority |-> pr, position |-> po]) :
            pr \in Priorities, po \in Positions}
    \cup {Some([applyTo |-> Some(<<All>>), excludeFrom |-> Some(<<<<"(", "*", "a">>>>),
                priority |-> None, position |-> None])}

InitDefaults ==
    /\ isServing \in BOOLEAN
    /\ insertSnippets = TRUE
    /\ snippetDir \in Orderings(DefaultsFiles)
    /\ configFile \in {[kind |-> "missing"]}
                        \cup {ConfigOf(c) : c \in [NamesOf(snippetDir) -> DefaultsRules]}
    /\ snippetConfig = None
    /\ snippets = <<>>
    /\ hpc = "idle"
    /\ pendingFiles = DOMAIN Pages
    /\ file = None
    /\ headSnippets = <<>>
    /\ bodySnippets = <<>>
    /\ head = <<>>
    /\ body = <<>>
    /\ MatchIdle
    /\ ApplyIdle
    /\ BuildIdle
    /\ ExtIdle

SpecDefaults == InitDefaults /\ [][Next]_vars

----------------------------------------------------------------------------
(* gulp/config.js: buildMode, its setters, and the source sets that depend *)
(* on it                                                                    *)

\* The four flags of buildMode as they are now
buildMode ==
    [isDevelopment |-> isDevelopment, isServing |-> isServing,
     insertSnippets |-> insertSnippets, buildPrivacyPolicy |-> buildPrivacyPolicy]

setDevelopmentMode(m, isDev) == [m EXCEPT !.isDevelopment = isDev]

\* Mutant of setServingMode: serving switches development mode on as well
setServingMode_setsDevelopment(m, isServe) ==
    [m EXCEPT !.isServing = isServe, !.isDevelopment = (m.isDevelopment \/ isServe)]

setServingMode(m, isServe) == [m EXCEPT !.isServing = isServe]

setSnippetsMode(m, insert) == [m EXCEPT !.insertSnippets = insert]

setPrivacyPolicyMode(m, build) == [m EXCEPT !.buildPrivacyPolicy = build]

\* The call of one setter, by name
CallSetter(n, m, b) ==
    CASE n = "setDevelopmentMode" -> setDevelopmentMode(m, b)
      [] n = "setServingMode" -> setServingMode(m, b)
      [] n = "setSnippetsMode" -> setSnippetsMode(m, b)
      [] n = "setPrivacyPolicyMode" -> setPrivacyPolicyMode(m, b)

\* this.<flag> = ...: the flags become those of m
Assign(m) ==
    /\ isDevelopment' = m.isDevelopment
    /\ isServing' = m.isServing
    /\ insertSnippets' = m.insertSnippets
    /\ buildPrivacyPolicy' = m.buildPrivacyPolicy

\* Mutant of htmlSrc: the exclusion is pushed when the flag is true
htmlSrc_excludesWhenBuilding(m) ==
    <<"./src/**/*.html", "!./src/snippets/**/*", "!./src/shadow-converter.html",
      "!./src/**/.DS_Store", "!./src/font-family-generator.html">>
        \o (IF m.buildPrivacyPolicy THEN <<"!./src/privacy-policy/**/*">> ELSE <<>>)

\* paths.html.src()
htmlSrc(m) ==
    <<"./src/**/*.html", "!./src/snippets/**/*", "!./src/shadow-converter.html",
      "!./src/**/.DS_Store", "!./src/font-family-generator.html">>
        \o (IF ~m.buildPrivacyPolicy THEN <<"!./src/privacy-policy/**/*">> ELSE <<>>)

\* paths.scss.src()
scssSrc(m) ==
    <<"./src/scss/style.scss">>
        \o (IF m.buildPrivacyPolicy THEN <<"./src/scss/privacy-policy.scss">> ELSE <<>>)

----------------------------------------------------------------------------
(* The stages: what each decides from buildMode when it is called *)

\* gulp/tasks/scripts.js
js(m) ==
    [useSourcemaps |-> m.isServing,
     skipMinify |-> m.isServing]

\* gulp/tasks/styles.js
scss(m) ==
    [useSourcemaps |-> m.isServing,
     shouldMinify |-> ~m.isDevelopment /\ ~m.isServing,
     sassOptions |-> IF m.isDevelopment THEN "development" ELSE "production",
     scssSource |-> scssSrc(m),
     convertBackgroundImageToWebP |-> ~m.isServing]

\* gulp/tasks/html.js
html(m) ==
    [skipMinify |-> m.isDevelopment \/ m.isServing,
     skipProcessing |-> m.isServing,
     insertSnippets |-> m.insertSnippets,
     htmlSource |-> htmlSrc(m)]

\* Mutant of processImages: the conversion is skipped in development mode
processImages_skipsInDevelopment(m) == [skipWebP |-> m.isDevelopment]

\* gulp/tasks/images.js
processImages(m) == [skipWebP |-> m.isServing]

\* Mutant of shadowConverter: the page is copied whatever the mode
shadowConverter_copiesAlways(m) == [copies |-> TRUE]

\* gulp/tasks/shadow-converter.js: Promise.resolve() unless serving
shadowConverter(m) == [copies |-> m.isServing]

\* gulp/tasks/font-family-generator.js: Promise.resolve() unless serving
fontFamilyGenerator(m) == [copies |-> m.isServing]

StageOpts(s, m) ==
    CASE s = "html" -> html(m)
      [] s = "js" -> js(m)
      [] s = "scss" -> scss(m)
      [] s = "images" -> processImages(m)
      [] s = "shadowConverter" -> shadowConverter(m)
      [] s = "fontFamilyGenerator" -> fontFamilyGenerator(m)

\* The HTML files of ./src the model follows: a page and the two tool pages
SrcPages == {"index.html", "shadow-converter.html", "font-family-generator.html"}

\* The page a tool task copies
ToolPage(t) == IF t = "shadowConverter" THEN "shadow-converter.html"
                                        ELSE "font-family-generator.html"

\* The negated glob of paths.html.src() that names a file of ./src
Exclusion(p) ==
    CASE p = "shadow-converter.html" -> "!./src/shadow-converter.html"
      [] p = "font-family-generator.html" -> "!./src/font-family-generator.html"
      [] OTHER -> "!./src/snippets/**/*"

\* A sequence has the entry
Listed(seq, e) == \E i \in DOMAIN seq : seq[i] = e

\* What a task that ran with these options has written to ./dist when its
\* stream ends: html the pages its globs match, a tool its page when it
\* copies; the files of js, scss and images are not followed
Written(t, opts) ==
    CASE t = "html" -> {p \in SrcPages : ~Listed(opts.htmlSource, Exclusion(p))}
      [] t \in ToolTasks -> IF opts.copies THEN {ToolPage(t)} ELSE {}
      [] OTHER -> {}

\* ./dist as an earlier run can have left it, and no zip of this run
OutputInit ==
    \E stale \in SUBSET SrcPages : output = [dist |-> stale, zip |-> None]

\* How a stage can end: the html stream fails when shouldApplySnippet throws
\* in the transform, which is in the pipe unless serving
StageEnds(s, m) ==
    IF s = "html" /\ m.insertSnippets /\ ~m.isServing THEN {"done", "failed"} ELSE {"done"}

----------------------------------------------------------------------------
(* buildMode used directly: any calls of the setters, then the stages *)

InitMode ==
    /\ MatchIdle
    /\ ApplyIdle
    /\ ConfigIdle
    /\ HtmlIdle
    /\ BuildIdle
    /\ PipeExtIdle
    /\ OutputInit

\* No stage has been called yet
ModeOpen == command = "none" /\ \A s \in Stages \cup ToolTasks : taskStatus[s] = "idle"

\* What a setter of buildMode leaves alone
modeRest == <<snippetDir, snippets, hpc, pendingFiles, file, headSnippets, bodySnippets,
              head, body, matchVars, applyVars, configVars, pipeVars, extVars>>

SetDevelopmentMode ==
    /\ ModeOpen
    /\ \E b \in BOOLEAN :
          /\ Assign(setDevelopmentMode(buildMode, b))
          /\ lastSet' = [lastSet EXCEPT !["setDevelopmentMode"] = Some(b)]
    /\ UNCHANGED modeRest

SetServingMode ==
    /\ ModeOpen
    /\ \E b \in BOOLEAN :
          /\ Assign(setServingMode(buildMode, b))
          /\ lastSet' = [lastSet EXCEPT !["setServingMode"] = Some(b)]
    /\ UNCHANGED modeRest

SetSnippetsMode ==
    /\ ModeOpen
    /\ \E b \in BOOLEAN :
          /\ Assign(setSnippetsMode(buildMode, b))
          /\ lastSet' = [lastSet EXCEPT !["setSnippetsMode"] = Some(b)]
    /\ UNCHANGED modeRest

SetPrivacyPolicyMode ==
    /\ ModeOpen
    /\ \E b \in BOOLEAN :
          /\ Assign(setPrivacyPolicyMode(buildMode, b))
          /\ lastSet' = [lastSet EXCEPT !["setPrivacyPolicyMode"] = Some(b)]
    /\ UNCHANGED modeRest

\* gulp <stage>: the stage is called with buildMode as it is and runs to its end
RunStage(s) ==
    /\ command = "none"
    /\ taskStatus[s] = "idle"
    /\ taskOpts' = [taskOpts EXCEPT ![s] = Some(StageOpts(s, buildMode))]
    /\ \E end \in StageEnds(s, buildMode) :
          /\ taskStatus' = [taskStatus EXCEPT ![s] = end]
          /\ output' = IF end = "done"
                       THEN [output EXCEPT !.dist = @ \cup Written(s, StageOpts(s, buildMode))]
                       ELSE output
    /\ UNCHANGED <<isDevelopment, buildPrivacyPolicy, lastSet, command, argv, gpc>>
    /\ UNCHANGED <<matchVars, applyVars, configVars, htmlVars>>
    /\ UNCHANGED pipeExtVars

NextMode ==
    \/ SetDevelopmentMode
    \/ SetServingMode
    \/ SetSnippetsMode
    \/ SetPrivacyPolicyMode
    \/ \E s \in Stages \cup ToolTasks : RunStage(s)

SpecMode == InitMode /\ [][NextMode]_vars

----------------------------------------------------------------------------
(* gulpfile.js and gulp/tasks/serve.js: the dev, build and serve pipelines *)

\* Mutant of dev: clean is after the parallel stages
dev_cleanAfterStages == <<"setDevEnvironment", "parallel", "clean", "createZip">>

\* gulp.series(setDevEnvironment, clean, gulp.parallel(...), createZip)
dev == <<"setDevEnvironment", "clean", "parallel", "createZip">>

\* Mutant of build: the flags are set after clean
build_cleanFirst == <<"clean", "setProdEnvironment", "parallel", "createZip">>

\* gulp.series(setProdEnvironment, clean, gulp.parallel(...), createZip)
build == <<"setProdEnvironment", "clean", "parallel", "createZip">>

\* gulp.series(setServeEnvironment, clean, gulp.parallel(...), startServer)
serve == <<"setServeEnvironment", "clean", "parallel", "startServer">>

Series ==
    CASE command = "dev" -> dev
      [] command = "build" -> build
      [] command = "serve" -> serve
      [] OTHER -> <<>>

\* The step the series is at ("end" once every step is done)
Step == IF gpc \in 1..Len(Series) THEN Series[gpc] ELSE "end"

\* The tasks of gulp.parallel in the series
Parallel ==
    IF command = "serve" THEN Stages \cup {"shadowConverter", "fontFamilyGenerator"} ELSE Stages

\* The tasks watch() re-runs on a file change
Watched == Stages \cup {"shadowConverter", "fontFamilyGenerator"}

\* startServer has called watch()
Watching == command = "serve" /\ taskStatus["startServer"] = "done"

InitPipeline ==
    /\ MatchIdle
    /\ ApplyIdle
    /\ ConfigIdle
    /\ HtmlIdle
    /\ PipeExtIdle
    /\ OutputInit
    /\ isDevelopment = TRUE
    /\ buildPrivacyPolicy = TRUE
    /\ lastSet = [n \in Setters |-> None]
    /\ command \in {"dev", "build", "serve"}
    /\ argv \in [snippets : BOOLEAN, privacyPolicy : BOOLEAN]
    /\ gpc = 1
    /\ taskStatus = [t \in Tasks |-> "idle"]
    /\ taskOpts = [t \in Stages \cup ToolTasks |-> None]

\* What a step of a pipeline leaves alone
pipeRest == <<snippetDir, snippets, hpc, pendingFiles, file, headSnippets, bodySnippets,
              head, body, matchVars, applyVars, configVars, command, argv, pipeExtVars>>

SetDevEnvironment ==
    /\ Step = "setDevEnvironment"
    /\ Assign(setPrivacyPolicyMode(setSnippetsMode(setServingMode(
                  setDevelopmentMode(buildMode, TRUE), FALSE), argv.snippets), argv.privacyPolicy))
    /\ lastSet' = [n \in Setters |->
                      CASE n = "setDevelopmentMode" -> Some(TRUE)
                        [] n = "setServingMode" -> Some(FALSE)
                        [] n = "setSnippetsMode" -> Some(argv.snippets)
                        [] n = "setPrivacyPolicyMode" -> Some(argv.privacyPolicy)]
    /\ gpc' = gpc + 1
    /\ UNCHANGED <<taskStatus, taskOpts, pipeRest>>
    /\ UNCHANGED output

SetProdEnvironment ==
    /\ Step = "setProdEnvironment"
    /\ Assign(setPrivacyPolicyMode(setSnippetsMode(setServingMode(
                  setDevelopmentMode(buildMode, FALSE), FALSE), argv.snippets), argv.privacyPolicy))
    /\ lastSet' = [n \in Setters |->
                      CASE n = "setDevelopmentMode" -> Some(FALSE)
                        [] n = "setServingMode" -> Some(FALSE)
                        [] n = "setSnippetsMode" -> Some(argv.snippets)
                        [] n = "setPrivacyPolicyMode" -> Some(argv.privacyPolicy)]
    /\ gpc' = gpc + 1
    /\ UNCHANGED <<taskStatus, taskOpts, pipeRest>>
    /\ UNCHANGED output

SetServeEnvironment ==
    /\ Step = "setServeEnvironment"
    /\ Assign(setServingMode(setDevelopmentMode(buildMode, TRUE), TRUE))
    /\ lastSet' = [lastSet EXCEPT !["setDevelopmentMode"] = Some(TRUE),
                                  !["setServingMode"] = Some(TRUE)]
    /\ gpc' = gpc + 1
    /\ UNCHANGED <<taskStatus, taskOpts, pipeRest>>
    /\ UNCHANGED output

\* clean or createZip is called
TaskStart(t) ==
    /\ Step = t
    /\ taskStatus[t] = "idle"
    /\ taskStatus' = [taskStatus EXCEPT ![t] = "running"]
    /\ UNCHANGED <<isDevelopment, isServing, insertSnippets, buildPrivacyPolicy, lastSet,
                   gpc, taskOpts, pipeRest>>
    /\ UNCHANGED output

\* The promise of clean or the stream of createZip ends: ./dist is deleted,
\* or the files of ./dist are in the zip
TaskEnd(t) ==
    /\ Step = t
    /\ taskStatus[t] = "running"
    /\ taskStatus' = [taskStatus EXCEPT ![t] = "done"]
    /\ gpc' = gpc + 1
    /\ UNCHANGED <<isDevelopment, isServing, insertSnippets, buildPrivacyPolicy, lastSet,
                   taskOpts, pipeRest>>
    /\ output' = IF t = "clean" THEN [output EXCEPT !.dist = {}]
                                ELSE [output EXCEPT !.zip = Some(output.dist)]

\* What a started stage or tool decided from buildMode
OptsAfterStart(t) ==
    IF t \in Stages \cup ToolTasks THEN [taskOpts EXCEPT ![t] = Some(StageOpts(t, buildMode))]
                                  ELSE taskOpts

\* gulp.parallel calls one of its tasks
StageStart(t) ==
    /\ Step = "parallel"
    /\ t \in Parallel
    /\ taskStatus[t] = "idle"
    /\ taskStatus' = [taskStatus EXCEPT ![t] = "running"]
    /\ taskOpts' = OptsAfterStart(t)
    /\ UNCHANGED <<isDevelopment, isServing, insertSnippets, buildPrivacyPolicy, lastSet,
                   gpc, pipeRest>>
    /\ UNCHANGED output

\* The stream of a stage ends or fails; the series goes on when every task
\* of gulp.parallel is done, and never when one has failed
StageEnd(t) ==
    /\ t \in Watched
    /\ taskStatus[t] = "running"
    /\ \E end \in StageEnds(t, buildMode) :
          /\ taskStatus' = [taskStatus EXCEPT ![t] = end]
          /\ gpc' = IF Step = "parallel" /\ end = "done"
                          /\ \A o \in Parallel \ {t} : taskStatus[o] = "done"
                     THEN gpc + 1 ELSE gpc
          /\ output' = IF end = "done"
                       THEN [output EXCEPT !.dist = @ \cup Written(t, TheValue(taskOpts[t]))]
                       ELSE output
    /\ UNCHANGED <<isDevelopment, isServing, insertSnippets, buildPrivacyPolicy, lastSet,
                   taskOpts, pipeRest>>

\* startServer: server.init, watch(), done()
StartServer ==
    /\ Step = "startServer"
    /\ taskStatus' = [taskStatus EXCEPT !["startServer"] = "done"]
    /\ gpc' = gpc + 1
    /\ UNCHANGED <<isDevelopment, isServing, insertSnippets, buildPrivacyPolicy, lastSet,
                   taskOpts, pipeRest>>
    /\ UNCHANGED output

\* A watched file changes and gulp.watch runs the task of its kind again
WatchRun(t) ==
    /\ Watching
    /\ t \in Watched
    /\ taskStatus[t] = "done"
    /\ taskStatus' = [taskStatus EXCEPT ![t] = "running"]
    /\ taskOpts' = OptsAfterStart(t)
    /\ UNCHANGED <<isDevelopment, isServing, insertSnippets, buildPrivacyPolicy, lastSet,
                   gpc, pipeRest>>
    /\ UNCHANGED output

NextPipeline ==
    \/ SetDevEnvironment
    \/ SetProdEnvironment
    \/ SetServeEnvironment
    \/ \E t \in {"clean", "createZip"} : TaskStart(t)
    \/ \E t \in {"clean", "createZip"} : TaskEnd(t)
    \/ \E t \in Watched : StageStart(t)
    \/ \E t \in Watched : StageEnd(t)
    \/ StartServer
    \/ \E t \in Watched : WatchRun(t)

SpecPipeline == InitPipeline /\ [][NextPipeline]_vars

----------------------------------------------------------------------------
(* Properties of the path matcher (under SpecMatch) *)

Called == mResult # "pending"

HasWildcard == IncludesChar(mPattern, "*")

\* The pattern read as a glob: "*" is any string, possibly empty, and every
\* other character is itself.
RECURSIVE GlobMatch(_, _)
GlobMatch(path, glob) ==
    IF glob = <<>> THEN path = <<>>
    ELSE IF Head(glob) = "*"
    THEN \E k \in 0..Len(path) : GlobMatch(SubSeq(path, k + 1, Len(path)), Tail(glob))
    ELSE path # <<>> /\ Head(path) = Head(glob) /\ GlobMatch(Tail(path), Tail(glob))

\* C3: matchesPattern never raises: whatever the path and the pattern, the
\* call ends with a boolean and never with the SyntaxError of new RegExp.
C3_NeverRaises == Called => mResult \in {"true", "false"}

\* C4: for a pattern with a "*" that is not its last character, the result
\* (where the call returns one) is true exactly when the whole path matches
\* the pattern read as a glob whose other characters are literal.
C4_GeneralWildcardIsLiteralGlob ==
    (Called /\ HasWildcard /\ ~EndsWith(mPattern, <<"*">>) /\ mResult # "SyntaxError")
        => mResult = BoolStr(GlobMatch(mFilePath, mPattern))

\* C5: a pattern without "*" matches a path exactly when the two are equal.
C5_NoWildcardIsEquality ==
    (Called /\ ~HasWildcard) => mResult = BoolStr(mFilePath = mPattern)

\* C5 witness: a non-empty pattern without "*" was tried on itself plus one
\* more character, and did not match.
C5_Witness ==
    /\ Called
    /\ ~HasWildcard
    /\ mPattern # <<>>
    /\ Len(mFilePath) = Len(mPattern) + 1
    /\ StartsWith(mFilePath, mPattern)
    /\ mResult = "false"

\* C6: a pattern ending with "*" matches a path exactly when the path starts
\* with the pattern minus that last "*".
C6_TrailingWildcardIsPrefix ==
    (Called /\ EndsWith(mPattern, <<"*">>))
        => mResult = BoolStr(StartsWith(mFilePath, SubSeq(mPattern, 1, Len(mPattern) - 1)))

\* C6 witness: pre + "*" with a non-empty pre matched pre plus a suffix.
C6_Witness ==
    /\ Called
    /\ EndsWith(mPattern, <<"*">>)
    /\ Len(mPattern) >= 2
    /\ Len(mFilePath) >= Len(mPattern)
    /\ mFilePath # mPattern
    /\ mResult = "true"

----------------------------------------------------------------------------
(* Properties of the rule evaluator (under SpecApply) *)

Applied == aResult # "pending"

HasRule == aName \in DOMAIN TheValue(snippetConfig)

TheRule == TheValue(snippetConfig)[aName]

\* Some pattern of the optional list matches the path
AnyMatches(path, list) ==
    IsSome(list) /\ \E i \in 1..Len(TheValue(list)) : matchesPattern(path, TheValue(list)[i]) = "true"

\* C1: exclusion dominance: a path that matches some pattern of excludeFrom
\* gets false, whatever applyTo holds.
C1_ExclusionDominance ==
    (Applied /\ HasRule /\ AnyMatches(aPath, TheRule.excludeFrom)) => aResult = "false"

C7_AllAppliesUnlessExcluded ==
    (Applied /\ HasRule) =>
        /\ (IsSome(TheRule.applyTo) /\ IncludesAll(TheValue(TheRule.applyTo))
                /\ ~AnyMatches(aPath, TheRule.excludeFrom))
             => aResult = "true"
        /\ (~(IsSome(TheRule.applyTo) /\ IncludesAll(TheValue(TheRule.applyTo)))
                /\ ~AnyMatches(aPath, TheRule.applyTo))
             => aResult = "false"

----------------------------------------------------------------------------
(* Properties of the snippet insertion (under Spec) *)

\* The transform handled a file with snippet insertion switched on
Inserted == file # None /\ ~isServing /\ insertSnippets

Group(tag) == IF tag = "head" THEN headSnippets ELSE bodySnippets

Children(tag) == IF tag = "head" THEN head ELSE body

\* Where a node is among the children (every node of the pages and of the
\* snippets has its own name)
NodeIndex(children, node) == CHOOSE i \in 1..Len(children) : children[i] = node

Has(children, node) == \E i \in 1..Len(children) : children[i] = node

\* Where a snippet is in the iteration order of the loaded snippets
EntryIndex(name) == CHOOSE i \in 1..Len(snippets) : snippets[i].name = name

\* The nodes of content are among the children, together and in their order
PlacedAt(children, content, at) ==
    /\ at >= 0
    /\ at + Len(content) <= Len(children)
    /\ \A k \in 1..Len(content) : children[at + k] = content[k]

Placed(children, content) ==
    \E at \in 0..Len(children) : PlacedAt(children, content, at)

\* All of x is among the children, before all of y
Precedes(children, x, y) ==
    /\ Placed(children, x)
    /\ Placed(children, y)
    /\ NodeIndex(children, x[Len(x)]) < NodeIndex(children, y[1])

\* s is processed before t: lower priority first, ties in iteration order
ProcessedBefore(s, t) ==
    \/ s.priority < t.priority
    \/ s.priority = t.priority /\ EntryIndex(s.name) < EntryIndex(t.name)

IsPrepend(s) == s.position = "prepend"
IsAppend(s) == s.position = "append"

RECURSIVE NodeCount(_)
NodeCount(group) == IF group = <<>> THEN 0 ELSE Len(Head(group).content) + NodeCount(Tail(group))

RECURSIVE Contents(_)
Contents(group) == IF group = <<>> THEN <<>> ELSE Head(group).content \o Contents(Tail(group))

\* The last n children
LastN(children, n) == SubSeq(children, Len(children) - n + 1, Len(children))

\* C8: prepend asymmetry: the PREPEND snippets of a zone are its first
\* children, and of two of them the one processed first (lower priority, or
\* equal priority and earlier in the iteration) stands after the other, so
\* their physical order is the reverse of the processing order.
C8_PrependReversesOrder ==
    Inserted =>
        \A tag \in {"head", "body"} :
          LET g == Group(tag)
              pre == SelectSeq(g, IsPrepend)
          IN /\ \A i \in 1..Len(pre) :
                    /\ Placed(Children(tag), pre[i].content)
                    /\ NodeIndex(Children(tag), pre[i].content[1]) <= NodeCount(pre)
             /\ \A i, j \in 1..Len(pre) :
                    ProcessedBefore(pre[i], pre[j])
                        => Precedes(Children(tag), pre[j].content, pre[i].content)

\* C8 witness: two PREPEND snippets with priorities 1 and 0 went into the
\* body, and the body starts with the priority-1 one followed by the other.
C8_Witness ==
    /\ Inserted
    /\ \E i, j \in 1..Len(bodySnippets) :
          /\ IsPrepend(bodySnippets[i]) /\ IsPrepend(bodySnippets[j])
          /\ bodySnippets[i].priority = 0
          /\ bodySnippets[j].priority = 1
          /\ PlacedAt(body, bodySnippets[j].content \o bodySnippets[i].content, 0)

\* The groups are in processing order: ascending priority, ties in the
\* iteration order of the loaded snippets
GroupsSorted ==
    \A tag \in {"head", "body"} :
        \A i, j \in 1..Len(Group(tag)) :
            i < j => ProcessedBefore(Group(tag)[i], Group(tag)[j])

TimesIn(group, name) == Cardinality({i \in 1..Len(group) : group[i].name = name})

\* C10: every applicable snippet is in exactly one zone, chosen by its name
\* alone: head for a name starting with "head-", body for every other name;
\* it is once in the group of that zone and its nodes are among that zone's
\* children, and it is in neither the group nor the children of the other. A
\* snippet that is not applicable is in no zone.
C10_ZoneByNamePrefix ==
    Inserted =>
        \A k \in 1..Len(snippets) :
          LET e == snippets[k]
              applicable == shouldApplySnippet(e.name, TheValue(file), snippetConfig) = "true"
              zone == IF Len(e.name) >= 5 /\ SubSeq(e.name, 1, 5) = <<"h", "e", "a", "d", "-">>
                      THEN "head" ELSE "body"
              other == IF zone = "head" THEN "body" ELSE "head"
          IN /\ TimesIn(Group(other), e.name) = 0
             /\ \A n \in 1..Len(e.content) : ~Has(Children(other), e.content[n])
             /\ TimesIn(Group(zone), e.name) = (IF applicable THEN 1 ELSE 0)
             /\ applicable => Placed(Children(zone), e.content)
             /\ ~applicable => \A n \in 1..Len(e.content) : ~Has(Children(zone), e.content[n])

\* C10 witness: head-a went into the head, and body-a, heads and foot went
\* into the body.
C10_Witness ==
    /\ Inserted
    /\ Has(head, "head-a.1")
    /\ Has(body, "body-a")
    /\ Has(body, "heads")
    /\ Has(body, "foot")

----------------------------------------------------------------------------
(* The html stage with snippet insertion switched off (under Spec) *)

\* Some rule of config.json makes shouldApplySnippet throw when it is evaluated
HasThrowingRule ==
    /\ configFile.kind = "ok"
    /\ \E n \in DOMAIN configFile.content :
          configFile.content[n].excludeFrom = Some(<<<<"(", "*", "a">>>>)

\* What the transform leaves in head when no snippet is inserted: the page's
\* own children, then the preload links of its first-view images
HeadWithoutSnippets(f) ==
    IF isServing THEN Pages[f].head ELSE Pages[f].head \o Pages[f].preloadLinks

\* C11: with insertSnippets false the html stage loads no snippet and no rule
\* config, never fails on a rule (shouldApplySnippet is not evaluated), and
\* every file it emits has in head and body no snippet node, whatever the
\* rules of config.json are.
C11_DisabledInsertsNothing ==
    ~insertSnippets =>
        /\ hpc # "failed"
        /\ snippets = <<>>
        /\ snippetConfig = None
        /\ file # None =>
              /\ headSnippets = <<>>
              /\ bodySnippets = <<>>
              /\ head = HeadWithoutSnippets(TheValue(file))
              /\ body = Pages[TheValue(file)].body

\* C11 witness: insertion is off, config.json holds a rule that would throw
\* and rules that would apply, and the transform has emitted every page.
C11_Witness ==
    /\ ~insertSnippets
    /\ ~isServing
    /\ HasThrowingRule
    /\ \E n \in DOMAIN configFile.content :
          configFile.content[n].applyTo = Some(<<All>>) /\ configFile.content[n].excludeFrom = None
    /\ hpc = "streaming"
    /\ pendingFiles = {}
    /\ file # None

----------------------------------------------------------------------------
(* Snippet files that cannot be read (under SpecLoad) *)

Loaded(name) == \E k \in 1..Len(snippets) : snippets[k].name = name

\* C12: a snippet file that cannot be read is not in the snippet map and in
\* no group of any file; every file that can be read is in the map and, where
\* its rule applies, its nodes are in its zone; head and body hold nothing
\* but the page's children, the grouped snippets and the preload links; and
\* the stream fails only on the rule of a snippet that was loaded.
C12_UnreadableSnippetLeftOut ==
    /\ hpc # "idle" =>
          \A i \in 1..Len(snippetDir) :
              Loaded(snippetDir[i].name) <=> IsSome(snippetDir[i].content)
    /\ Inserted =>
          /\ \A i \in 1..Len(snippetDir) :
                LET d == snippetDir[i]
                    zone == getSnippetTargetTag(d.name)
                IN IF IsSome(d.content)
                   THEN shouldApplySnippet(d.name, TheValue(file), snippetConfig) = "true"
                            => /\ TimesIn(Group(zone), d.name) = 1
                               /\ Placed(Children(zone), TheValue(d.content))
                   ELSE TimesIn(headSnippets, d.name) = 0 /\ TimesIn(bodySnippets, d.name) = 0
          /\ Len(head) = Len(Pages[TheValue(file)].head) + NodeCount(headSnippets)
                            + Len(Pages[TheValue(file)].preloadLinks)
          /\ Len(body) = Len(Pages[TheValue(file)].body) + NodeCount(bodySnippets)
    /\ hpc = "failed" =>
          \E i \in 1..Len(snippetDir), f \in pendingFiles :
              /\ IsSome(snippetDir[i].content)
              /\ shouldApplySnippet(snippetDir[i].name, f, snippetConfig) = "SyntaxError"

\* C12 witness: body-a.html could not be read and its rule is one that would
\* throw if evaluated, head-a and foot were read and went into every page,
\* and the stream emitted both pages.
C12_Witness ==
    /\ Inserted
    /\ hpc = "streaming"
    /\ pendingFiles = {}
    /\ \E i \in 1..Len(snippetDir) :
          /\ snippetDir[i].name = BodyA
          /\ ~IsSome(snippetDir[i].content)
    /\ BodyA \in DOMAIN TheValue(snippetConfig)
    /\ TheValue(snippetConfig)[BodyA].excludeFrom # None
    /\ Has(head, "head-a.1")
    /\ Has(body, "foot")
    /\ ~Has(body, "body-a")

----------------------------------------------------------------------------
(* The defaults of a rule (under SpecDefaults) *)

\* The rule config.json has for a grouped snippet
RuleOf(name) == TheValue(snippetConfig)[name]

NoNumber(p) == p = None \/ TheValue(p).typeof # "number"

NotAppend(p) ==
    \/ p = None
    \/ TheValue(p).typeof # "string"
    \/ TheValue(p).typeof = "string" /\ TheValue(p).value # "append"

\* C13: a grouped snippet whose rule has no priority, or one that is not a
\* number, has priority 0; one whose rule has no position, or any value other
\* than "append", has position "prepend" and its nodes are among the first
\* children of its zone, where the prepended snippets are.
C13_RuleDefaults ==
    Inserted =>
        \A tag \in {"head", "body"} :
            \A i \in 1..Len(Group(tag)) :
              LET g == Group(tag)[i]
                  r == RuleOf(g.name)
              IN /\ NoNumber(r.priority) => g.priority = 0
                 /\ NotAppend(r.position) =>
                       /\ g.position = "prepend"
                       /\ Placed(Children(tag), g.content)
                       /\ NodeIndex(Children(tag), g.content[1])
                             <= NodeCount(SelectSeq(Group(tag), IsPrepend))

\* C13 witness: the rule of body-a has priority "1" (a string) and position
\* "APPEND"; body-a was grouped with priority 0 as a prepend and is the first
\* child of the body of index.html.
C13_Witness ==
    /\ Inserted
    /\ file = Some(IndexHtml)
    /\ BodyA \in DOMAIN TheValue(snippetConfig)
    /\ RuleOf(BodyA).priority = Some(Str("1"))
    /\ RuleOf(BodyA).position = Some(Str("APPEND"))
    /\ bodySnippets = <<[name |-> BodyA, content |-> <<"body-a">>,
                         priority |-> 0, position |-> "prepend"]>>
    /\ body = <<"body-a", "fv", "main">>

----------------------------------------------------------------------------
(* Properties of buildMode (under SpecMode) *)

\* The flag a setter writes
FlagOf(n, m) ==
    CASE n = "setDevelopmentMode" -> m.isDevelopment
      [] n = "setServingMode" -> m.isServing
      [] n = "setSnippetsMode" -> m.insertSnippets
      [] n = "setPrivacyPolicyMode" -> m.buildPrivacyPolicy

\* The flags as the module defines them
DefaultMode ==
    [isDevelopment |-> TRUE, isServing |-> FALSE,
     insertSnippets |-> TRUE, buildPrivacyPolicy |-> TRUE]

\* C14: each flag is the argument of the last call of its own setter, or its
\* default when the setter was never called; from every state a setter call
\* changes its own flag only, the same call made twice gives what one call
\* gives, and two calls of different setters give the same flags in either
\* order.
C14_FlagsIndependent ==
    /\ \A n \in Setters :
          FlagOf(n, buildMode) =
              (IF lastSet[n] = None THEN FlagOf(n, DefaultMode) ELSE TheValue(lastSet[n]))
    /\ \A n \in Setters, b \in BOOLEAN :
          LET once == CallSetter(n, buildMode, b)
          IN /\ FlagOf(n, once) = b
             /\ \A o \in Setters \ {n} : FlagOf(o, once) = FlagOf(o, buildMode)
             /\ CallSetter(n, once, b) = once
             /\ \A o \in Setters \ {n}, c \in BOOLEAN :
                   CallSetter(o, once, c) = CallSetter(n, CallSetter(o, buildMode, c), b)

\* C14 witness: every setter was called and every flag is the opposite of its
\* default, the combination that takes the most calls to reach.
C14_Witness ==
    /\ \A n \in Setters : lastSet[n] # None
    /\ buildMode = [isDevelopment |-> FALSE, isServing |-> TRUE,
                    insertSnippets |-> FALSE, buildPrivacyPolicy |-> FALSE]

----------------------------------------------------------------------------
(* Properties of the pipelines (under SpecPipeline) *)

Started(t) == taskStatus[t] # "idle"

\* C15: in a run of dev, build or serve the flags of buildMode change only in
\* the first step of the series, while clean and every stage are still to
\* start; and whenever a stage has started, at first or re-run by a watcher,
\* what it decided is what the flags as they are now give.
C15_FlagsWrittenInFirstStepOnly ==
    [][/\ buildMode' # buildMode => (gpc = 1 /\ \A t \in Tasks : ~Started(t))
       /\ \A s \in Stages :
             taskOpts'[s] # None => taskOpts'[s] = Some(StageOpts(s, buildMode'))]_vars

\* C15 witness: serve set the flags, the server is started, html has been
\* run again by its watcher while images is done, and every stage has read
\* the flags serve set.
C15_Witness ==
    /\ Watching
    /\ lastSet["setServingMode"] = Some(TRUE)
    /\ taskStatus["html"] = "running"
    /\ taskStatus["images"] = "done"
    /\ \A s \in Stages : taskOpts[s] = Some(StageOpts(s, buildMode))

\* C16: in dev and build no stage has started unless clean is done, and
\* createZip has not started unless html, js, scss and images are all done,
\* in whatever order the four start and end.
C16_CleanThenStagesThenZip ==
    command \in {"dev", "build"} =>
        /\ \A s \in Stages : Started(s) => taskStatus["clean"] = "done"
        /\ Started("createZip") => \A s \in Stages : taskStatus[s] = "done"

\* C16 witness: in dev, createZip is running, after clean and the four
\* stages are done.
C16_Witness ==
    /\ command = "dev"
    /\ taskStatus["createZip"] = "running"
    /\ taskStatus["clean"] = "done"
    /\ \A s \in Stages : taskStatus[s] = "done"

\* The privacy-policy page is in the sources the html stage read
PageIncluded == ~Has(TheValue(taskOpts["html"]).htmlSource, "!./src/privacy-policy/**/*")

\* The privacy-policy stylesheet is in the sources the scss stage read
StylesheetIncluded == Has(TheValue(taskOpts["scss"]).scssSource, "./src/scss/privacy-policy.scss")

\* C18: in dev, build and serve alike the html and scss stages run with the
\* privacy-policy page and stylesheet left out when the command line has
\* --no-privacy-policy, and included when it has not.
C18_NoPrivacyPolicyFlagHonoured ==
    /\ taskOpts["html"] # None => (PageIncluded <=> argv.privacyPolicy)
    /\ taskOpts["scss"] # None => (StylesheetIncluded <=> argv.privacyPolicy)

\* C19: in dev the js, scss and html stages do not minify and js and scss
\* write source maps; in build the three minify and no source map is written.
C19_DevUnminifiedWithSourceMaps ==
    /\ command = "dev" =>
          /\ taskOpts["js"] # None =>
                TheValue(taskOpts["js"]).skipMinify /\ TheValue(taskOpts["js"]).useSourcemaps
          /\ taskOpts["scss"] # None =>
                ~TheValue(taskOpts["scss"]).shouldMinify /\ TheValue(taskOpts["scss"]).useSourcemaps
          /\ taskOpts["html"] # None => TheValue(taskOpts["html"]).skipMinify
    /\ command = "build" =>
          /\ taskOpts["js"] # None =>
                ~TheValue(taskOpts["js"]).skipMinify /\ ~TheValue(taskOpts["js"]).useSourcemaps
          /\ taskOpts["scss"] # None =>
                TheValue(taskOpts["scss"]).shouldMinify /\ ~TheValue(taskOpts["scss"]).useSourcemaps
          /\ taskOpts["html"] # None => ~TheValue(taskOpts["html"]).skipMinify

----------------------------------------------------------------------------
(* Properties of the stages under any flags (under SpecMode) *)

\* The entries of a source set other than e, in their order
Without(sources, e) == SelectSeq(sources, LAMBDA x : x # e)

\* C17: the source set the html stage reads has the exclusion of
\* ./src/privacy-policy/**/* exactly when buildPrivacyPolicy is false, the
\* one the scss stage reads has ./src/scss/privacy-policy.scss exactly when
\* it is true, and the other entries of both are the same lists for either
\* value of the flag.
C17_PrivacyPolicyGate ==
    /\ taskOpts["html"] # None =>
          LET src == TheValue(taskOpts["html"]).htmlSource
          IN /\ Has(src, "!./src/privacy-policy/**/*") <=> ~buildPrivacyPolicy
             /\ Without(src, "!./src/privacy-policy/**/*") =
                   <<"./src/**/*.html", "!./src/snippets/**/*", "!./src/shadow-converter.html",
                     "!./src/**/.DS_Store", "!./src/font-family-generator.html">>
    /\ taskOpts["scss"] # None =>
          LET src == TheValue(taskOpts["scss"]).scssSource
          IN /\ Has(src, "./src/scss/privacy-policy.scss") <=> buildPrivacyPolicy
             /\ Without(src, "./src/scss/privacy-policy.scss") = <<"./src/scss/style.scss">>

\* C17 witness: setPrivacyPolicyMode(false) was called, then html and scss
\* were run; the html sources have six entries and the scss sources one.
C17_Witness ==
    /\ lastSet["setPrivacyPolicyMode"] = Some(FALSE)
    /\ taskOpts["html"] # None
    /\ taskOpts["scss"] # None
    /\ Len(TheValue(taskOpts["html"]).htmlSource) = 6
    /\ Len(TheValue(taskOpts["scss"]).scssSource) = 1

CoreIdle == MatchIdle /\ ApplyIdle /\ ConfigIdle /\ HtmlIdle /\ BuildIdle

OnlyChain == CoreIdle /\ ScrollIdle /\ MapsIdle /\ VideosIdle /\ ThrottleIdle /\ DebounceIdle /\ WebpIdle /\ OutputIdle

OnlyScroll == CoreIdle /\ ChainIdle /\ MapsIdle /\ VideosIdle /\ ThrottleIdle /\ DebounceIdle /\ WebpIdle /\ OutputIdle

OnlyMaps == CoreIdle /\ ChainIdle /\ ScrollIdle /\ VideosIdle /\ ThrottleIdle /\ DebounceIdle /\ WebpIdle /\ OutputIdle

OnlyVideos == CoreIdle /\ ChainIdle /\ ScrollIdle /\ MapsIdle /\ ThrottleIdle /\ DebounceIdle /\ WebpIdle /\ OutputIdle

OnlyThrottle == CoreIdle /\ ChainIdle /\ ScrollIdle /\ MapsIdle /\ VideosIdle /\ DebounceIdle /\ WebpIdle /\ OutputIdle

OnlyDebounce == CoreIdle /\ ChainIdle /\ ScrollIdle /\ MapsIdle /\ VideosIdle /\ ThrottleIdle /\ WebpIdle /\ OutputIdle

OnlyWebp == CoreIdle /\ ChainIdle /\ ScrollIdle /\ MapsIdle /\ VideosIdle /\ ThrottleIdle /\ DebounceIdle /\ OutputIdle

\* ---------------------------------------------------------------------------
\* The promise chain that ends the html transform (html.js 283-318)
\* ---------------------------------------------------------------------------

\* The most <source> elements the transform finds in one page
MaxImages == 2

\* The pages that go through the transform, in the order of the stream
ChainFiles == <<"index.html", "about.html">>

\* getImageDimensions never rejects: it resolves with the dimensions, or with
\* null after logging when the file is missing or reading it throws
getImageDimensions(found) ==
    IF found = "found" THEN [value |-> "dimensions", logged |-> 0]
                       ELSE [value |-> "null", logged |-> 1]

DimensionOutcomes == {"found", "missing", "error"}

\* formatHTML rejecting when prettier throws
formatHTML_rethrows(text, prettierOk) ==
    IF prettierOk THEN [settled |-> "resolved", value |-> "formatted", logged |-> 0]
                  ELSE [settled |-> "rejected", value |-> text, logged |-> 1]

\* formatHTML: the formatted text, or after an error of prettier a log line
\* and the text it was given
formatHTML(text, prettierOk) ==
    IF prettierOk THEN [settled |-> "resolved", value |-> "formatted", logged |-> 0]
                  ELSE [settled |-> "resolved", value |-> text, logged |-> 1]

\* A page as the transform callback holds it once the synchronous part is over
\* and the lookups of its n images are pending
Entered(f, n) ==
    [name |-> f, pc |-> "lookups", lookups |-> [i \in 1..n |-> "pending"],
     formatFailed |-> FALSE, contents |-> "original", cbCalls |-> 0, logged |-> 0]

InitChain ==
    /\ OnlyChain
    /\ \E n \in [1..Len(ChainFiles) -> 0..MaxImages] :
          transform = [queue |-> ChainFiles, images |-> n, cur |-> None, out |-> <<>>]

\* through2 hands the next page to the transform callback
ChainBegin ==
    /\ transform.cur = None
    /\ transform.queue # <<>>
    /\ LET k == Len(ChainFiles) - Len(transform.queue) + 1
       IN  transform' = [transform EXCEPT
                !.queue = Tail(@),
                !.cur = Some(Entered(Head(transform.queue), transform.images[k]))]
    /\ UNCHANGED chainRest

\* One getImageDimensions promise settles and its then-callback sets width
\* and height when it was given dimensions
LookupSettles ==
    /\ IsSome(transform.cur)
    /\ LET c == TheValue(transform.cur)
       IN  /\ c.pc = "lookups"
           /\ \E i \in DOMAIN c.lookups, o \in DimensionOutcomes :
                 /\ c.lookups[i] = "pending"
                 /\ LET r == getImageDimensions(o)
                    IN  transform' = [transform EXCEPT !.cur = Some(
                            [c EXCEPT !.lookups[i] = r.value, !.logged = @ + r.logged])]
    /\ UNCHANGED chainRest

\* Promise.all has settled and the first then-callback goes as far as
\* formatHTML, which settles; on resolved the inner then-callback writes the
\* contents and calls cb
ThenFormat ==
    /\ IsSome(transform.cur)
    /\ LET c == TheValue(transform.cur)
       IN  /\ c.pc = "lookups"
           /\ \A i \in DOMAIN c.lookups : c.lookups[i] # "pending"
           /\ \E prettierOk \in BOOLEAN :
                 LET r == formatHTML("unformatted", prettierOk)
                     d == [c EXCEPT !.formatFailed = ~prettierOk, !.logged = @ + r.logged]
                 IN  IF r.settled = "resolved"
                     THEN transform' = [transform EXCEPT
                              !.cur = None,
                              !.out = Append(@, [d EXCEPT !.pc = "done", !.contents = r.value,
                                                          !.cbCalls = @ + 1])]
                     ELSE transform' = [transform EXCEPT !.cur = Some([d EXCEPT !.pc = "rejected"])]
    /\ UNCHANGED chainRest

\* The first then-callback throws before it reaches formatHTML
ThenThrows ==
    /\ IsSome(transform.cur)
    /\ LET c == TheValue(transform.cur)
       IN  /\ c.pc = "lookups"
           /\ \A i \in DOMAIN c.lookups : c.lookups[i] # "pending"
           /\ transform' = [transform EXCEPT !.cur = Some([c EXCEPT !.pc = "rejected"])]
    /\ UNCHANGED chainRest

\* The catch-callback: a log line, the contents as read, cb
ChainCatch ==
    /\ IsSome(transform.cur)
    /\ LET c == TheValue(transform.cur)
       IN  /\ c.pc = "rejected"
           /\ transform' = [transform EXCEPT
                  !.cur = None,
                  !.out = Append(@, [c EXCEPT !.pc = "done", !.contents = "original",
                                              !.logged = @ + 1, !.cbCalls = @ + 1])]
    /\ UNCHANGED chainRest

NextChain ==
    \/ ChainBegin
    \/ LookupSettles
    \/ ThenFormat
    \/ ThenThrows
    \/ ChainCatch

SpecChain == InitChain /\ [][NextChain]_vars

\* The pages the stage has emitted, in order
Emitted == [k \in 1..Len(transform.out) |-> transform.out[k].name]

\* A lookup of the page came back without dimensions
LookupFailed(r) == \E i \in DOMAIN r.lookups : r.lookups[i] = "null"

\* C21: a page whose dimension lookup or whose formatting failed is emitted
\* exactly once, with a log line, and the pages after it are emitted too: the
\* emitted pages are always the first pages of the stream in order, each with
\* one call of cb; a failed lookup leaves only width and height out, a failed
\* formatting leaves the page transformed and unformatted
C21_FailureEmitsOnceAndGoesOn ==
    /\ Emitted = SubSeq(ChainFiles, 1, Len(transform.out))
    /\ Len(transform.out) + Len(transform.queue) + Len(transform.cur) = Len(ChainFiles)
    /\ IsSome(transform.cur) => TheValue(transform.cur).cbCalls = 0
    /\ \A k \in 1..Len(transform.out) :
          LET r == transform.out[k]
          IN  /\ r.cbCalls = 1
              /\ (LookupFailed(r) \/ r.formatFailed) => r.logged >= 1
              /\ r.formatFailed => r.contents = "unformatted"
              /\ r.contents \in {"formatted", "unformatted", "original"}

\* Both pages are out, the first after a failed lookup and a failed formatting
C21_Witness ==
    /\ Len(transform.out) = Len(ChainFiles)
    /\ LookupFailed(transform.out[1])
    /\ transform.out[1].formatFailed
    /\ transform.out[1].contents = "unformatted"

\* ---------------------------------------------------------------------------
\* ResponsiveSmoothScroll (ResponsiveSmoothScroll.js)
\* ---------------------------------------------------------------------------

\* The most clicks and resizes the page dispatches
MaxEvents == 3

\* Function.prototype.bind returns a new function object at every call: the
\* k-th bound function of the page is k
bind(method, k) == [method |-> method, id |-> k]

\* addEventListener: the listener joins the listeners of its event type
addEventListener(ls, type, fn) == ls \cup {[type |-> type, fn |-> fn]}

\* removeEventListener: the listener of that type that is the very function
\* object passed leaves; any other function object removes nothing
removeEventListener(ls, type, fn) == ls \ {[type |-> type, fn |-> fn]}

\* init(): the click listener, and the resize listener under updateOnResize
init(s) ==
    LET click == addEventListener(s.listeners, "click", bind("handleClick", s.bound + 1))
    IN  IF s.config.updateOnResize
        THEN [s EXCEPT !.listeners = addEventListener(click, "resize",
                                                       bind("handleResize", s.bound + 2)),
                       !.bound = @ + 2]
        ELSE [s EXCEPT !.listeners = click, !.bound = @ + 1]

\* destroy(): removeEventListener with functions bound anew, clearTimeout
destroy(s) ==
    LET click == removeEventListener(s.listeners, "click", bind("handleClick", s.bound + 1))
        timer == IF IsSome(s.resizeTimer) THEN s.timers \ {TheValue(s.resizeTimer)}
                                          ELSE s.timers
    IN  IF s.config.updateOnResize
        THEN [s EXCEPT !.listeners = removeEventListener(click, "resize",
                                                          bind("handleResize", s.bound + 2)),
                       !.bound = @ + 2, !.timers = timer, !.destroyed = TRUE]
        ELSE [s EXCEPT !.listeners = click, !.bound = @ + 1, !.timers = timer,
                       !.destroyed = TRUE]

\* handleResize(): clearTimeout of the timer it holds, then a new timer
handleResize(s) ==
    LET cleared == IF IsSome(s.resizeTimer) THEN s.timers \ {TheValue(s.resizeTimer)}
                                            ELSE s.timers
    IN  [s EXCEPT !.timers = cleared \cup {s.timerIds + 1},
                  !.resizeTimer = Some(s.timerIds + 1),
                  !.timerIds = @ + 1,
                  !.ran = IF s.destroyed THEN @ \cup {"handleResize", "setTimeout"} ELSE @]

\* What a click can land on: no link of the selector, a link whose href is "#",
\* a link to an element of the page
ClickTargets == {"none", "hash", "anchor"}

\* handleClick(e): it returns early unless the link leads to an element, and
\* then prevents the default and scrolls
handleClick(s, target) ==
    [s EXCEPT !.clicksHandled = @ + 1,
              !.scrolls = IF target = "anchor" THEN @ + 1 ELSE @,
              !.ran = IF s.destroyed THEN @ \cup {"handleClick"} ELSE @]

\* The listeners of the page for an event type
ListenersOf(s, type) == {l \in s.listeners : l.type = type}

\* new ResponsiveSmoothScroll(options): the constructor ends with init()
Constructed(updateOnResize) ==
    init([config |-> [updateOnResize |-> updateOnResize], listeners |-> {}, bound |-> 0,
          resizeTimer |-> None, timers |-> {}, timerIds |-> 0, clicksHandled |-> 0, scrolls |-> 0,
          events |-> 0, destroyed |-> FALSE, ran |-> {}])

InitScroll ==
    /\ OnlyScroll
    /\ \E updateOnResize \in BOOLEAN : scroll = Constructed(updateOnResize)

\* The page dispatches a click: every click listener runs handleClick
Click ==
    /\ scroll.events < MaxEvents
    /\ \E target \in ClickTargets :
          scroll' = [(IF ListenersOf(scroll, "click") # {} THEN handleClick(scroll, target)
                                                           ELSE scroll)
                        EXCEPT !.events = @ + 1]
    /\ UNCHANGED scrollRest

\* The window dispatches a resize: every resize listener runs handleResize
Resize ==
    /\ scroll.events < MaxEvents
    /\ scroll' = [(IF ListenersOf(scroll, "resize") # {} THEN handleResize(scroll) ELSE scroll)
                    EXCEPT !.events = @ + 1]
    /\ UNCHANGED scrollRest

\* A pending timer fires; its callback does nothing and resizeTimer keeps the handle
TimerFires ==
    /\ \E t \in scroll.timers : scroll' = [scroll EXCEPT !.timers = @ \ {t}]
    /\ UNCHANGED scrollRest

\* smoothScroll.destroy()
Destroy ==
    /\ ~scroll.destroyed
    /\ scroll' = destroy(scroll)
    /\ UNCHANGED scrollRest

NextScroll ==
    \/ Click
    \/ Resize
    \/ TimerFires
    \/ Destroy

SpecScroll == InitScroll /\ [][NextScroll]_vars

\* C22: after destroy() the click and resize listeners are removed: a later
\* click does not run handleClick, a later resize does not run handleResize
\* and starts no timer
C22_DestroyRemovesListeners ==
    scroll.destroyed => scroll.ran = {}

\* ---------------------------------------------------------------------------
\* LazyGoogleMapLoader (lazy-google-map-loader/README.md)
\* ---------------------------------------------------------------------------

\* The most elements of the page that match the selector
MaxMaps == 2

\* How an element of the selector is written in the page: a div with data-src,
\* a div with coordinates only, an iframe with src, a div that already
\* carries data-map-src
Markups == {"div data-src", "div data-lat", "iframe src", "div data-map-src"}

\* The element as the page has it before the loader touches it
Element(markup) ==
    [tag |-> IF markup = "iframe src" THEN "IFRAME" ELSE "DIV",
     dataSrc |-> markup = "div data-src",
     src |-> markup = "iframe src",
     mapSrc |-> markup = "div data-map-src",
     placeholder |-> FALSE, loaded |-> FALSE, hasMap |-> FALSE, observed |-> FALSE]

\* setupElement(element): dataset.mapSrc from data-src, from src (moved to
\* data-src) or from generateMapUrl, which always has a URL to give
setupElement(e) ==
    IF e.mapSrc THEN e
    ELSE [e EXCEPT !.mapSrc = TRUE, !.dataSrc = TRUE, !.src = FALSE]

\* loadMap(element) on the element alone: nothing without dataset.mapSrc
loadMapElement(e) ==
    IF ~e.mapSrc THEN e
    ELSE [e EXCEPT !.src = IF e.tag = "IFRAME" THEN e.dataSrc ELSE @,
                   !.hasMap = IF e.tag = "IFRAME" THEN e.dataSrc ELSE TRUE,
                   !.loaded = TRUE, !.placeholder = FALSE]

\* loadMap(element): the element, and the counter one up when it had a URL
loadMap(m, k) ==
    [m EXCEPT !.elements[k] = loadMapElement(@),
              !.loadedCount = IF m.elements[k].mapSrc THEN @ + 1 ELSE @]

RECURSIVE loadMapsFrom(_, _)
loadMapsFrom(m, k) ==
    IF k > Len(m.elements) THEN m ELSE loadMapsFrom(loadMap(m, k), k + 1)

\* loadAllMaps(): totalCount, then loadMap for every element of the selector
loadAllMaps(m) == loadMapsFrom([m EXCEPT !.totalCount = Len(m.elements)], 1)

\* init() where IntersectionObserver exists: every element gets the
\* placeholder class, setupElement and observe
initObserving(m) ==
    [m EXCEPT !.totalCount = Len(m.elements),
              !.observer = TRUE,
              !.elements = [k \in DOMAIN m.elements |->
                               [setupElement(m.elements[k]) EXCEPT !.placeholder = TRUE,
                                                                   !.observed = TRUE]]]

\* init()
mapsInit(m) ==
    [(IF ~m.supported THEN loadAllMaps(m) ELSE initObserving(m)) EXCEPT !.initialized = TRUE]

InitMaps ==
    /\ OnlyMaps
    /\ \E n \in 0..MaxMaps, supported \in BOOLEAN :
       \E markup \in [1..n -> Markups] :
          maps = [supported |-> supported, elements |-> [k \in 1..n |-> Element(markup[k])],
                  loadedCount |-> 0, totalCount |-> 0, observer |-> FALSE,
                  initialized |-> FALSE, loadAllCalled |-> FALSE]

\* loader.init(), or the constructor under autoInit
MapsInit ==
    /\ ~maps.initialized
    /\ maps' = mapsInit(maps)
    /\ UNCHANGED mapsRest

\* onIntersection: an observed element intersects, loadMap and unobserve
MapsIntersection ==
    /\ maps.observer
    /\ \E k \in DOMAIN maps.elements :
          /\ maps.elements[k].observed
          /\ maps' = [loadMap(maps, k) EXCEPT !.elements[k].observed = FALSE]
    /\ UNCHANGED mapsRest

\* loader.loadAllMaps() called by the page, once
MapsLoadAll ==
    /\ maps.initialized
    /\ ~maps.loadAllCalled
    /\ maps' = [loadAllMaps(maps) EXCEPT !.loadAllCalled = TRUE]
    /\ UNCHANGED mapsRest

NextMaps ==
    \/ MapsInit
    \/ MapsIntersection
    \/ MapsLoadAll

SpecMaps == InitMaps /\ [][NextMaps]_vars

\* C23: without IntersectionObserver, after init() every element of the
\* selector has its map and the loaded class, and loadedCount = totalCount
C23_FallbackLoadsEveryMap ==
    (maps.initialized /\ ~maps.supported /\ ~maps.loadAllCalled) =>
        /\ maps.loadedCount = maps.totalCount
        /\ \A k \in DOMAIN maps.elements : maps.elements[k].loaded /\ maps.elements[k].hasMap

\* ---------------------------------------------------------------------------
\* LazyYouTubeLoader (LazyYouTubeLoader.js)
\* ---------------------------------------------------------------------------

\* The most elements of the page that match the selector
MaxVideos == 2

\* The most calls of loadAllVideos by the page
MaxLoadAll == 1

\* How an element of the selector is written in the page: a div with a
\* YouTube URL in data-src, an iframe with src, a div that already carries
\* data-youtube-id, a div whose data-src holds no video id
VideoMarkups == {"div data-src", "iframe src", "div data-youtube-id", "div no id"}

\* extractVideoId on the src or data-src of the element: found or null
extractVideoId(markup) == markup \in {"div data-src", "iframe src"}

VideoElement(markup) ==
    [markup |-> markup,
     tag |-> IF markup = "iframe src" THEN "IFRAME" ELSE "DIV",
     dataSrc |-> markup \in {"div data-src", "div no id"},
     src |-> markup = "iframe src",
     youtubeId |-> markup = "div data-youtube-id",
     placeholder |-> FALSE, loaded |-> FALSE, observed |-> FALSE]

\* setupElement(element) of the videos: dataset.youtubeId when the URL has one
setupVideoElement(e) ==
    IF e.youtubeId THEN e
    ELSE IF extractVideoId(e.markup)
         THEN [e EXCEPT !.youtubeId = TRUE, !.dataSrc = TRUE, !.src = FALSE]
         ELSE e

\* loadVideo(element): nothing without dataset.youtubeId; else the iframe,
\* the loaded class, loadedCount++ and the onLoad call of executeCallback
loadVideo(v, k) ==
    IF ~v.elements[k].youtubeId THEN v
    ELSE LET e == [v.elements[k] EXCEPT !.src = IF @ \/ v.elements[k].tag # "IFRAME"
                                                 THEN @ ELSE v.elements[k].dataSrc,
                                        !.loaded = TRUE, !.placeholder = FALSE]
             w == [v EXCEPT !.elements[k] = e, !.loadedCount = @ + 1]
         IN  [w EXCEPT !.onLoad = Append(@,
                 [loadedCount |-> w.loadedCount, totalCount |-> w.totalCount,
                  isComplete |-> w.loadedCount = w.totalCount,
                  allLoaded |-> \A j \in DOMAIN w.elements : w.elements[j].loaded])]

RECURSIVE loadVideosFrom(_, _)
loadVideosFrom(v, k) ==
    IF k > Len(v.elements) THEN v
    ELSE loadVideosFrom(loadVideo([v EXCEPT !.elements[k] = setupVideoElement(@)], k), k + 1)

\* loadAllVideos(): totalCount, then setupElement and loadVideo for every element
loadAllVideos(v) == loadVideosFrom([v EXCEPT !.totalCount = Len(v.elements)], 1)

\* init() of the videos
videosInit(v) ==
    [(IF ~v.supported THEN loadAllVideos(v)
      ELSE [v EXCEPT !.totalCount = Len(v.elements),
                     !.observer = TRUE,
                     !.elements = [k \in DOMAIN v.elements |->
                                      [setupVideoElement(v.elements[k])
                                          EXCEPT !.placeholder = TRUE, !.observed = TRUE]]])
       EXCEPT !.initialized = TRUE]

InitVideos ==
    /\ OnlyVideos
    /\ \E n \in 0..MaxVideos, supported \in BOOLEAN :
       \E markup \in [1..n -> VideoMarkups] :
          videos = [supported |-> supported,
                    elements |-> [k \in 1..n |-> VideoElement(markup[k])],
                    loadedCount |-> 0, totalCount |-> 0, observer |-> FALSE,
                    initialized |-> FALSE, loadAllCalls |-> 0, onLoad |-> <<>>]

\* loader.init(), or the constructor under autoInit
VideosInit ==
    /\ ~videos.initialized
    /\ videos' = videosInit(videos)
    /\ UNCHANGED videosRest

\* onIntersection: an observed element intersects, loadVideo and unobserve
VideosIntersection ==
    /\ videos.observer
    /\ \E k \in DOMAIN videos.elements :
          /\ videos.elements[k].observed
          /\ videos' = [loadVideo(videos, k) EXCEPT !.elements[k].observed = FALSE]
    /\ UNCHANGED videosRest

\* The timer of updateRootMargin fires: a new observer on every element of the
\* selector without the loaded class
VideosReobserve ==
    /\ videos.observer
    /\ videos' = [videos EXCEPT !.elements = [k \in DOMAIN videos.elements |->
                        [videos.elements[k] EXCEPT !.observed = ~videos.elements[k].loaded]]]
    /\ videos' # videos
    /\ UNCHANGED videosRest

\* loader.loadAllVideos() called by the page
VideosLoadAll ==
    /\ videos.initialized
    /\ videos.loadAllCalls < MaxLoadAll
    /\ videos' = [loadAllVideos(videos) EXCEPT !.loadAllCalls = @ + 1]
    /\ UNCHANGED videosRest

NextVideos ==
    \/ VideosInit
    \/ VideosIntersection
    \/ VideosReobserve
    \/ VideosLoadAll

SpecVideos == InitVideos /\ [][NextVideos]_vars

\* The elements that have been loaded
LoadedVideos == {k \in DOMAIN videos.elements : videos.elements[k].loaded}

\* C24: loadedCount is the number of distinct elements loaded and never more
\* than totalCount, and onLoad was given isComplete = true exactly by the
\* loads after which every element was loaded
C24_CountersCountDistinctLoads ==
    /\ videos.loadedCount = Cardinality(LoadedVideos)
    /\ videos.loadedCount <= videos.totalCount
    /\ \A c \in DOMAIN videos.onLoad :
          videos.onLoad[c].isComplete <=> videos.onLoad[c].allLoaded

\* ---------------------------------------------------------------------------
\* throttle (utils/throttle.js)
\* ---------------------------------------------------------------------------

\* limit, in ticks of the clock
ThrottleLimit == 2

\* The last tick of the clock
MaxTime == 5

\* The most calls of the function throttle returns
MaxCalls == 4

\* What func.apply(this, args) can do
FuncOutcomes == {"returns", "throws"}

\* The returned function with no window after func has returned
throttledCall_opensNoWindow(s, outcome) ==
    IF ~s.inThrottle
    THEN [s EXCEPT !.funcRuns = Append(@, [at |-> s.now, outcome |-> outcome]),
                   !.calls = Append(@, [at |-> s.now, open |-> FALSE, ran |-> TRUE,
                                        outcome |-> outcome, opened |-> FALSE])]
    ELSE [s EXCEPT !.calls = Append(@, [at |-> s.now, open |-> TRUE, ran |-> FALSE,
                                        outcome |-> "none", opened |-> FALSE])]

\* The returned function: under !inThrottle, func.apply, then inThrottle = true
\* and setTimeout(..., limit); an exception of func leaves the function before
\* the two
throttledCall(s, outcome) ==
    IF ~s.inThrottle
    THEN IF outcome = "returns"
         THEN [s EXCEPT !.funcRuns = Append(@, [at |-> s.now, outcome |-> outcome]),
                        !.inThrottle = TRUE,
                        !.timers = @ \cup {s.now + ThrottleLimit},
                        !.calls = Append(@, [at |-> s.now, open |-> FALSE, ran |-> TRUE,
                                             outcome |-> outcome, opened |-> TRUE])]
         ELSE [s EXCEPT !.funcRuns = Append(@, [at |-> s.now, outcome |-> outcome]),
                        !.calls = Append(@, [at |-> s.now, open |-> FALSE, ran |-> TRUE,
                                             outcome |-> outcome, opened |-> FALSE])]
    ELSE [s EXCEPT !.calls = Append(@, [at |-> s.now, open |-> TRUE, ran |-> FALSE,
                                        outcome |-> "none", opened |-> FALSE])]

\* throttle(func, limit): inThrottle is undefined, no timer
InitThrottle ==
    /\ OnlyThrottle
    /\ throttled = [now |-> 0, inThrottle |-> FALSE, timers |-> {}, funcRuns |-> <<>>,
                    calls |-> <<>>]

\* The page calls the returned function
ThrottledCall ==
    /\ Len(throttled.calls) < MaxCalls
    /\ \E outcome \in FuncOutcomes : throttled' = throttledCall(throttled, outcome)
    /\ UNCHANGED throttleRest

\* The timer of a window is due: inThrottle = false
ThrottleTimerFires ==
    /\ \E due \in throttled.timers :
          /\ due = throttled.now
          /\ throttled' = [throttled EXCEPT !.inThrottle = FALSE, !.timers = @ \ {due}]
    /\ UNCHANGED throttleRest

\* A tick of the clock, once the timers due have fired
ThrottleTick ==
    /\ throttled.now < MaxTime
    /\ \A due \in throttled.timers : due > throttled.now
    /\ throttled' = [throttled EXCEPT !.now = @ + 1]
    /\ UNCHANGED throttleRest

NextThrottle ==
    \/ ThrottledCall
    \/ ThrottleTimerFires
    \/ ThrottleTick

SpecThrottle == InitThrottle /\ [][NextThrottle]_vars

DebounceDelay == 2

\* The arguments the page calls the returned function with
DebounceArgs == {"first", "second"}

\* The returned function without clearTimeout
debouncedCall_keepsTimer(s, arg) ==
    [s EXCEPT !.timeoutId = Some(s.ids + 1),
              !.ids = @ + 1,
              !.timers = @ \cup {[id |-> s.ids + 1, due |-> s.now + DebounceDelay, arg |-> arg]},
              !.calls = Append(@, [at |-> s.now, arg |-> arg])]

\* The returned function: clearTimeout(timeoutId), then a new timer that will
\* call func with the arguments of this call
debouncedCall(s, arg) ==
    LET kept == {t \in s.timers : Some(t.id) # s.timeoutId}
    IN  [s EXCEPT !.timeoutId = Some(s.ids + 1),
                  !.ids = @ + 1,
                  !.timers = kept \cup {[id |-> s.ids + 1, due |-> s.now + DebounceDelay,
                                         arg |-> arg]},
                  !.calls = Append(@, [at |-> s.now, arg |-> arg])]

\* debounce(func, delay): timeoutId is undefined, no timer
InitDebounce ==
    /\ OnlyDebounce
    /\ debounced = [now |-> 0, timeoutId |-> None, ids |-> 0, timers |-> {},
                    calls |-> <<>>, funcRuns |-> <<>>]

\* The page calls the returned function
DebouncedCall ==
    /\ Len(debounced.calls) < MaxCalls
    /\ \E arg \in DebounceArgs : debounced' = debouncedCall(debounced, arg)
    /\ UNCHANGED debounceRest

\* A timer is due: func.apply(this, args); timeoutId keeps its handle
DebounceTimerFires ==
    /\ \E t \in debounced.timers :
          /\ t.due = debounced.now
          /\ debounced' = [debounced EXCEPT
                 !.timers = @ \ {t},
                 !.funcRuns = Append(@, [at |-> debounced.now, arg |-> t.arg])]
    /\ UNCHANGED debounceRest

\* A tick of the clock, once the timers due have fired
DebounceTick ==
    /\ debounced.now < MaxTime
    /\ \A t \in debounced.timers : t.due > debounced.now
    /\ debounced' = [debounced EXCEPT !.now = @ + 1]
    /\ UNCHANGED debounceRest

NextDebounce ==
    \/ DebouncedCall
    \/ DebounceTimerFires
    \/ DebounceTick

SpecDebounce == InitDebounce /\ [][NextDebounce]_vars

\* Every call so far came less than delay after the call before it
Burst ==
    /\ debounced.calls # <<>>
    /\ \A c \in 2..Len(debounced.calls) :
          debounced.calls[c].at - debounced.calls[c - 1].at < DebounceDelay

LastCall == debounced.calls[Len(debounced.calls)]

\* C26: at most one timer is pending; in a series of calls each less than
\* delay after the one before, func has not run while the timer of the last
\* call is pending, that timer is due delay after the last call, and once it
\* has fired func has run exactly once, delay after the last call and with
\* the arguments of the last call
C26_BurstRunsOnceAfterLastCall ==
    /\ Cardinality(debounced.timers) <= 1
    /\ Burst =>
          IF debounced.timers # {}
          THEN /\ debounced.funcRuns = <<>>
               /\ debounced.timers = {[id |-> debounced.ids, due |-> LastCall.at + DebounceDelay,
                                       arg |-> LastCall.arg]}
               /\ debounced.now <= LastCall.at + DebounceDelay
          ELSE debounced.funcRuns = <<[at |-> LastCall.at + DebounceDelay, arg |-> LastCall.arg]>>

\* Three calls in a burst with different arguments, and func has run
C26_Witness ==
    /\ Burst
    /\ Len(debounced.calls) >= 3
    /\ debounced.calls[1].arg # LastCall.arg
    /\ LastCall.at > debounced.calls[1].at
    /\ Len(debounced.funcRuns) = 1

\* ---------------------------------------------------------------------------
\* The tool tasks, called by hand or by a pipeline
\* ---------------------------------------------------------------------------

InitTools == InitMode \/ InitPipeline

NextTools == NextMode \/ NextPipeline

SpecTools == InitTools /\ [][NextTools]_vars

\* The tool pages
ToolPages == {ToolPage(t) : t \in ToolTasks}

C28_ServingInsertsNothing ==
    /\ (file # None /\ (headSnippets # <<>> \/ bodySnippets # <<>>))
          => (insertSnippets /\ ~isServing)
    /\ isServing =>
          /\ hpc # "failed"
          /\ file # None =>
                /\ headSnippets = <<>>
                /\ bodySnippets = <<>>
                /\ head = Pages[TheValue(file)].head
                /\ body = Pages[TheValue(file)].body

\* Serving with insertion on: the snippets and a config whose rules apply to
\* all pages are loaded, and every page has been emitted
C28_Witness ==
    /\ isServing
    /\ insertSnippets
    /\ snippets # <<>>
    /\ snippetConfig # None
    /\ configFile.kind = "ok"
    /\ \E n \in DOMAIN configFile.content :
          configFile.content[n].applyTo = Some(<<All>>) /\ configFile.content[n].excludeFrom = None
    /\ pendingFiles = {}
    /\ file # None

\* ---------------------------------------------------------------------------
\* The layout of a zone after the insertion (under Spec)
\* ---------------------------------------------------------------------------

RECURSIVE Reversed(_)
Reversed(seq) == IF seq = <<>> THEN <<>> ELSE Reversed(Tail(seq)) \o <<Head(seq)>>

\* The snippet went in by tag.prepend: every position but "append"
Prepended(s) == ~IsAppend(s)

\* The children the page has in a zone
Original(tag) == IF tag = "head" THEN Pages[TheValue(file)].head ELSE Pages[TheValue(file)].body

\* Every snippet of a group is a loaded snippet with its content and has a
\* rule in the config, and every loaded snippet is once in the group of its
\* zone when it is applicable and in no group when it is not
GroupedOnceIfApplicable ==
    /\ \A tag \in {"head", "body"} :
          \A i \in 1..Len(Group(tag)) :
              /\ \E k \in 1..Len(snippets) :
                    /\ snippets[k].name = Group(tag)[i].name
                    /\ snippets[k].content = Group(tag)[i].content
                    /\ Len(snippets[k].content) > 0
              /\ IsSome(snippetConfig)
              /\ Group(tag)[i].name \in DOMAIN TheValue(snippetConfig)
    /\ \A k \in 1..Len(snippets) :
          TimesIn(headSnippets, snippets[k].name) + TimesIn(bodySnippets, snippets[k].name)
             = IF shouldApplySnippet(snippets[k].name, TheValue(file), snippetConfig) = "true"
               THEN 1 ELSE 0

MaxFiles == 3

\* A file of the run: an image of paths.images.types.convert, another image,
\* or a directory, an empty file or a .gitkeep (shouldProcessFile is false)
FileKinds == {"convert", "copyOnly", "skipped"}

RECURSIVE Convertible(_)
Convertible(files) ==
    IF files = <<>> THEN 0
    ELSE (IF Head(files) = "convert" THEN 1 ELSE 0) + Convertible(Tail(files))

createProgressTracker == [totalFiles |-> 0, processedFiles |-> 0, successCount |-> 0]

\* The transform of countConvertibleFiles for one file
countConvertibleFiles(stats, kind) ==
    IF kind = "convert" THEN [stats EXCEPT !.totalFiles = @ + 1] ELSE stats

\* updateProgress: the completion messages after the call, each kept with
\* the processedFiles it was logged at
updateProgress(stats, completed) ==
    IF stats.totalFiles = 0 THEN completed
    ELSE IF stats.processedFiles = stats.totalFiles
         THEN Append(completed, stats.processedFiles)
         ELSE completed

\* The then handler of processConvertibleImage: convertToWebP resolved with
\* success (false when the conversion failed; it catches every error itself)
conversionSettled(w, success) ==
    LET counted == [w.stats EXCEPT !.processedFiles = @ + 1,
                                   !.successCount = IF success THEN @ + 1 ELSE @]
    IN  [w EXCEPT !.stats = counted,
                  !.completed = updateProgress(counted, w.completed),
                  !.busy = FALSE]

\* processWithWebPConversion has made the stream: no file has reached the
\* counting transform yet
InitWebp ==
    /\ OnlyWebp
    /\ \E n \in 0..MaxFiles : \E files \in [1..n -> FileKinds] :
          webp = [files |-> files, counted |-> 0, taken |-> 0, busy |-> FALSE,
                  stats |-> createProgressTracker, completed |-> <<>>]

\* The next file of gulp.src passes the counting transform
CountFile ==
    /\ webp.counted < Len(webp.files)
    /\ webp' = [webp EXCEPT !.counted = @ + 1,
                            !.stats = countConvertibleFiles(@, webp.files[webp.counted + 1])]
    /\ UNCHANGED webpRest

\* The transform of processImageFiles is called with the next counted file:
\* it calls back at once for a file that is not processed, and starts the
\* conversion or the copy of an image
ProcessFile ==
    /\ ~webp.busy
    /\ webp.taken < webp.counted
    /\ webp' = [webp EXCEPT !.taken = @ + 1,
                            !.busy = webp.files[webp.taken + 1] # "skipped"]
    /\ UNCHANGED webpRest

\* convertToWebP settles and the then handler runs
ConversionSettles ==
    /\ webp.busy
    /\ webp.files[webp.taken] = "convert"
    /\ \E success \in BOOLEAN : webp' = conversionSettled(webp, success)
    /\ UNCHANGED webpRest

\* copyImage settles and processCopyOnlyImage calls back
CopySettles ==
    /\ webp.busy
    /\ webp.files[webp.taken] = "copyOnly"
    /\ webp' = [webp EXCEPT !.busy = FALSE]
    /\ UNCHANGED webpRest

NextWebp ==
    \/ CountFile
    \/ ProcessFile
    \/ ConversionSettles
    \/ CopySettles

SpecWebp == InitWebp /\ [][NextWebp]_vars

\* Every file of the run has left the processing transform
RunOver == webp.taken = Len(webp.files) /\ ~webp.busy

\* C30: processedFiles never exceeds totalFiles; the completion message is
\* logged at most once, only when every convertible file of the run has been
\* processed, and it has been logged when a run with convertible files is over
C30_CompletionLoggedOnceAfterAll ==
    /\ webp.stats.processedFiles <= webp.stats.totalFiles
    /\ Len(webp.completed) <= 1
    /\ \A i \in 1..Len(webp.completed) : webp.completed[i] = Convertible(webp.files)
    /\ (RunOver /\ Convertible(webp.files) > 0) => Len(webp.completed) = 1

=============================================================================
